---- MODULE Spec2Model ----
(***************************************************************************)
(* A model of the tspl2 crate: the Printer session of src/src/lib.rs (and  *)
(* its older variant src/src/printer.rs), which encodes TSPL/TSPL2         *)
(* commands and writes them to a device file.                              *)
(*                                                                         *)
(* The device file is the sequence of buffers it accepted: one element of  *)
(* `sink` per successful `write_all`.  A `write_all` that fails leaves the *)
(* sink as it was and makes the method return the I/O error through `?`.   *)
(*                                                                         *)
(* A fluent chain `p.a()?.b()?.c()?` is a `plan` (the calls the caller     *)
(* wrote down) and a position in it: a step runs only while the chain is   *)
(* "running", an Err makes `?` leave the chain ("failed"), a panic unwinds *)
(* the caller ("panicked").  The constructor runs its own chain            *)
(* (size, gap and, in lib.rs, cls) before it returns the session.          *)
(***************************************************************************)
EXTENDS Integers, Sequences, FiniteSets, TLC

VARIABLES
    impl,        \* which source file's Printer: "lib" or "printer"
    tape,        \* the Tape handed to the constructor
    dpi,         \* the dpi handed to with_resolution
    phase,       \* "New", "Configuring", "Ready", "Failed"
    resolution,  \* Printer.resolution (lib.rs); NoResolution while there is no session
    sink,        \* the buffers the device file accepted, in order
    plan,        \* the calls of the chain in progress
    pos,         \* the next call of plan
    status,      \* "idle", "running", "done", "failed", "panicked"
    mark,        \* the lengths of hist and sink when the chain in progress began
    hist         \* every call attempted so far: the request, its place in its
                 \* chain, its outcome, its number of write_all calls

vars == <<impl, tape, dpi, phase, resolution, sink, plan, pos, status, mark, hist>>

-----------------------------------------------------------------------------
(* Bounds of the exploration *)

\* how many calls (constructor steps not counted) the caller writes in a session
MaxCalls == 3

-----------------------------------------------------------------------------
(* Text *)

CRLF == "\r\n"

Digit(d) ==
    CASE d = 0 -> "0" [] d = 1 -> "1" [] d = 2 -> "2" [] d = 3 -> "3"
      [] d = 4 -> "4" [] d = 5 -> "5" [] d = 6 -> "6" [] d = 7 -> "7"
      [] d = 8 -> "8" [] d = 9 -> "9"

\* A u32 is held in 32 bits.  The values of 2^31 and more are written as the
\* integer with the same bit pattern, v - 2^32: u32::MAX = 4294967295 is -1.
U32_MAX == -1

\* the bit pattern of 2^31
U32_BIT31 == (-2147483647) - 1

\* `{}` of an unsigned integer: its decimal digits, no sign, no padding
RECURSIVE FmtU(_)
FmtU(n) ==
    IF n < 0
    THEN LET u    == n - U32_BIT31
             last == (u % 10) + 8
         IN  FmtU((u \div 10) + 214748364 + (last \div 10)) \o Digit(last % 10)
    ELSE IF n < 10 THEN Digit(n)
    ELSE FmtU(n \div 10) \o Digit(n % 10)


-----------------------------------------------------------------------------
(* f32 arithmetic.  A finite f32 is [neg, m, e] and stands for m * 2^e,    *)
(* with m = 0 or 2^23 <= m < 2^24 (24 significant bits); every operation   *)
(* rounds to nearest, ties to even, as IEEE 754 binary32 does.  Subnormals,*)
(* infinities and NaN lie outside the lengths and resolutions explored.    *)

RECURSIVE Pow2(_)
Pow2(k) == IF k = 0 THEN 1 ELSE 2 * Pow2(k - 1)

Pow2_12 == Pow2(12)
Pow2_21 == Pow2(21)
Pow2_22 == Pow2(22)
Pow2_23 == Pow2(23)
Pow2_24 == Pow2(24)
Pow2_25 == Pow2(25)
Pow2_26 == Pow2(26)

F32Zero == [neg |-> FALSE, m |-> 0, e |-> 0]

\* m holds 26 bits (2^25 <= m < 2^26): 24 kept bits, two dropped bits, and
\* `sticky` says whether anything nonzero lies below them
RoundBits(neg, m, e, sticky) ==
    LET keep  == m \div 4
        low   == m % 4
        up    == \/ low = 3
                 \/ low = 2 /\ (sticky \/ (keep % 2) = 1)
        r     == IF up THEN keep + 1 ELSE keep
    IN  IF r = Pow2_24
        THEN [neg |-> neg, m |-> Pow2_23, e |-> e + 3]
        ELSE [neg |-> neg, m |-> r, e |-> e + 2]

\* bring a positive integer m (with dropped-bits flag) to 26 bits, drawing the
\* missing low bits from the remainder r of a division by den
RECURSIVE NormDiv(_, _, _, _, _, _)
NormDiv(neg, m, r, den, e, sticky) ==
    IF m >= Pow2_26
    THEN NormDiv(neg, m \div 2, r, den, e + 1, sticky \/ (m % 2) = 1)
    ELSE IF m < Pow2_25
    THEN LET r2  == 2 * r
             bit == IF r2 >= den THEN 1 ELSE 0
         IN  NormDiv(neg, (2 * m) + bit, r2 - (bit * den), den, e - 1, sticky)
    ELSE RoundBits(neg, m, e, sticky \/ r # 0)

\* the f32 nearest to (num / den) * 2^e0, for num >= 0, 0 < den < 2^30
RoundRatio(neg, num, den, e0) ==
    IF num = 0 THEN F32Zero
    ELSE NormDiv(neg, num \div den, num % den, den, e0, FALSE)

\* `n as f32` for an unsigned integer
F32FromU(n) == RoundRatio(FALSE, n, 1, 0)

\* a / b
F32Div(a, b) ==
    IF a.m = 0 THEN F32Zero
    ELSE RoundRatio(a.neg # b.neg, a.m, b.m, a.e - b.e)

\* a * b: the 48-bit product of the mantissas in 12-bit limbs, as H*2^24 + L
F32Mul(a, b) ==
    IF a.m = 0 \/ b.m = 0 THEN F32Zero
    ELSE LET a1  == a.m \div Pow2_12
             a0  == a.m % Pow2_12
             b1  == b.m \div Pow2_12
             b0  == b.m % Pow2_12
             lo  == a0 * b0
             t   == (a1 * b0) + (a0 * b1) + (lo \div Pow2_12)
             H   == (a1 * b1) + (t \div Pow2_12)
             L   == (t % Pow2_12) * Pow2_12 + (lo % Pow2_12)
             neg == a.neg # b.neg
         IN  IF H >= Pow2_23
             THEN RoundBits(neg, (4 * H) + (L \div Pow2_22), a.e + b.e + 22,
                            (L % Pow2_22) # 0)
             ELSE RoundBits(neg, (8 * H) + (L \div Pow2_21), a.e + b.e + 21,
                            (L % Pow2_21) # 0)

\* faulty variant: the fraction is rounded to the nearest integer
F32ToU32_nearest(x) ==
    IF x.m = 0 \/ x.neg THEN 0
    ELSE IF x.e >= 9 THEN U32_MAX
    ELSE IF x.e = 8 THEN ((x.m - Pow2_23) * 256) + U32_BIT31
    ELSE IF x.e >= 0 THEN x.m * Pow2(x.e)
    ELSE IF x.e <= -25 THEN 0
    ELSE (x.m + Pow2((-x.e) - 1)) \div Pow2(-x.e)

\* faulty variant: a value of 2^32 and more keeps its low 32 bits
F32ToU32_wrapping(x) ==
    IF x.m = 0 \/ x.neg THEN 0
    ELSE IF x.e >= 32 THEN 0
    ELSE IF x.e >= 9
    THEN LET low == x.m % Pow2(32 - x.e)
         IN  IF low >= Pow2(31 - x.e)
             THEN ((low - Pow2(31 - x.e)) * Pow2(x.e)) + U32_BIT31
             ELSE low * Pow2(x.e)
    ELSE IF x.e = 8 THEN ((x.m - Pow2_23) * 256) + U32_BIT31
    ELSE IF x.e >= 0 THEN x.m * Pow2(x.e)
    ELSE IF x.e <= -24 THEN 0
    ELSE x.m \div Pow2(-x.e)

\* `x as u32`: toward zero and saturating: a negative value gives 0, a value
\* of 2^32 and more gives u32::MAX.
F32ToU32(x) ==
    IF x.m = 0 \/ x.neg THEN 0
    ELSE IF x.e >= 9 THEN U32_MAX
    ELSE IF x.e = 8 THEN ((x.m - Pow2_23) * 256) + U32_BIT31
    ELSE IF x.e >= 0 THEN x.m * Pow2(x.e)
    ELSE IF x.e <= -24 THEN 0
    ELSE x.m \div Pow2(-x.e)

-----------------------------------------------------------------------------
(* Size.  The f32 of Imperial and Metric is written as the decimal the     *)
(* caller supplies, n / 10^s, and stands for the f32 nearest to it.        *)

Imperial(n, s) == [unit |-> "Imperial", neg |-> FALSE, n |-> n, s |-> s]
Metric(n, s)   == [unit |-> "Metric",   neg |-> FALSE, n |-> n, s |-> s]
Dots(n)        == [unit |-> "Dots",     neg |-> FALSE, n |-> n, s |-> 0]

RECURSIVE Pow10(_)
Pow10(k) == IF k = 0 THEN 1 ELSE 10 * Pow10(k - 1)

\* the f32 carried by an Imperial or Metric value
F32Of(size) == RoundRatio(size.neg, size.n, Pow10(size.s), 0)

\* the f32 literal 25.4
F32_25_4 == RoundRatio(FALSE, 254, 10, 0)

to_dots_raw(size, res) ==
    CASE size.unit = "Imperial" ->
            F32ToU32(F32Mul(F32Of(size), F32FromU(res)))
      [] size.unit = "Metric" ->
            F32ToU32(F32Mul(F32Div(F32Of(size), F32_25_4), F32FromU(res)))
      [] size.unit = "Dots" -> size.n

-----------------------------------------------------------------------------
(* Display *)

\* Option<T>
None    == <<>>
Some(v) == <<v>>

\* `{:0w}` of an unsigned integer: zero-padded on the left to w digits at least
RECURSIVE FmtPad(_, _)
FmtPad(n, w) ==
    IF w > 1 /\ n < Pow10(w - 1) THEN "0" \o FmtPad(n, w - 1) ELSE FmtU(n)

\* drop the trailing zeros of the fraction of n / 10^s
RECURSIVE Strip(_, _)
Strip(n, s) == IF s > 0 /\ (n % 10) = 0 THEN Strip(n \div 10, s - 1) ELSE <<n, s>>

\* `{}` of the f32 nearest to n / 10^s: the shortest decimal that reads back as
\* that f32, which for a decimal of at most six significant digits is the
\* decimal itself without trailing zeros ("30" for 30.0, "1.4" for 1.4)
FmtF32(neg, n, s) ==
    LET c    == Strip(n, s)
        int  == c[1] \div Pow10(c[2])
        frac == c[1] % Pow10(c[2])
        sign == IF neg /\ c[1] # 0 THEN "-" ELSE ""
    IN  IF c[2] = 0 THEN sign \o FmtU(int)
        ELSE sign \o FmtU(int) \o "." \o FmtPad(frac, c[2])

\* impl Display for Size
SizeDisplay(size) ==
    CASE size.unit = "Imperial" -> FmtF32(size.neg, size.n, size.s)
      [] size.unit = "Metric"   -> FmtF32(size.neg, size.n, size.s) \o " mm"
      [] size.unit = "Dots"     -> FmtU(size.n) \o " dot"

\* strum Display of the enums: the `serialize` string of the variant
RotationDisplay(r) ==
    CASE r = "NoRotation" -> "0" [] r = "Rotation90" -> "90"
      [] r = "Rotation180" -> "180" [] r = "Rotation270" -> "270"

AlignmentDisplay(a) ==
    CASE a = "Default" -> "0" [] a = "Left" -> "1"
      [] a = "Center" -> "2" [] a = "Right" -> "3"

FontDisplay(f) ==
    CASE f = "FontMonotye" -> "0" [] f = "Font8x12" -> "1"
      [] f = "Font12x20" -> "2" [] f = "Font16x24" -> "3"
      [] f = "Font24x32" -> "4" [] f = "Font32x48" -> "5"
      [] f = "Font14x19" -> "6" [] f = "Font21x27" -> "7"
      [] f = "Font14x25" -> "8" [] f = "FontRoman" -> "ROMAN.TTF"
      [] f = "FontEpl1" -> "1.EFT" [] f = "FontEpl2" -> "2.EFT"
      [] f = "FontEpl3" -> "3.RFT" [] f = "FontEpl4" -> "4.EFT"
      [] f = "FontEpl5" -> "5.EFT" [] f = "FontZplA" -> "A.FNT"
      [] f = "FontZplB" -> "B.FNT" [] f = "FontZplD" -> "D.FNT"
      [] f = "FontZplE8" -> "E8.FNT" [] f = "FontZplF" -> "F.FNT"
      [] f = "FontZplG" -> "G.FNT" [] f = "FontZplH8" -> "H8.FNT"
      [] f = "FontZplGs" -> "GS.FNT"

RssTypeDisplay(t) ==
    CASE t = "Rss14" -> "RSS14" [] t = "Rss14T" -> "RSS14T"
      [] t = "Rss14S" -> "RSS14S" [] t = "Rss14So" -> "RSS14SO"
      [] t = "RssLim" -> "RSSLIM" [] t = "RssExp" -> "RSSEXP"
      [] t = "UpcA" -> "UPCA" [] t = "UpcE" -> "UPCE"
      [] t = "Ean13" -> "EAN13" [] t = "Ean8" -> "EAN8"
      [] t = "Ucc128Cca" -> "UCC128CCA" [] t = "Ucc128Ccc" -> "UCC128CCC"

QrCodeJustificationDisplay(j) ==
    CASE j = "UpperLeft" -> "J1" [] j = "UpperCenter" -> "J2"
      [] j = "UpperRight" -> "J3" [] j = "CenterLeft" -> "J4"
      [] j = "Center" -> "J5" [] j = "CenterRight" -> "J6"
      [] j = "BottomLeft" -> "J7" [] j = "BottomCenter" -> "J8"
      [] j = "BottomRight" -> "J9"

BitmapModeDisplay(m) ==
    CASE m = "Overwrite" -> "0" [] m = "Or" -> "1" [] m = "Xor" -> "2"

\* `b as u8` of a bool
BoolU8(b) == IF b THEN 1 ELSE 0

-----------------------------------------------------------------------------
(* The command each method builds before it writes: `let cmd = ...`.       *)
(* Cmd(buf) is the buffer handed to write_all; Invalid is an early         *)
(* `return Err(anyhow!(...))` taken before any buffer exists.              *)

Cmd(buf) == [valid |-> TRUE,  buf |-> buf]
Invalid  == [valid |-> FALSE, buf |-> ""]

size_cmd(width, height) ==
    IF height # None
    THEN Cmd("SIZE " \o SizeDisplay(width) \o "," \o SizeDisplay(height[1]) \o CRLF)
    ELSE Cmd("SIZE " \o SizeDisplay(width) \o CRLF)

gap_cmd(gap, gap_offset) ==
    IF gap_offset # None
    THEN Cmd("GAP " \o SizeDisplay(gap) \o "," \o SizeDisplay(gap_offset[1]) \o CRLF)
    ELSE Cmd("GAP " \o SizeDisplay(gap) \o CRLF)

\* faulty variant: the range of the doc comment ("0...15"), not of the code
density_cmd_from_zero(density) ==
    IF density \in 0..15
    THEN Cmd("DENSITY " \o FmtU(density) \o CRLF)
    ELSE Invalid

density_cmd(density) ==
    IF density \in 1..15
    THEN Cmd("DENSITY " \o FmtU(density) \o CRLF)
    ELSE Invalid

BarcodeDisplay(b) ==
    CASE b = "Barcode128" -> "128"
      [] b = "Barcode128M" -> "128M"
      [] b = "BarcodeEan128" -> "EAN128"
      [] b = "BarcodeEan128M" -> "EAN128M"
      [] b = "Barcode25" -> "25"
      [] b = "Barcode25C" -> "25C"
      [] b = "Barcode25S" -> "25S"
      [] b = "Barcode25I" -> "25I"
      [] b = "Barcode39" -> "39"
      [] b = "Barcode39C" -> "39C"
      [] b = "Barcode93" -> "93"
      [] b = "BarcodeEan13" -> "EAN13"
      [] b = "BarcodeEan13Plus2" -> "EAN13+2"
      [] b = "BarcodeEan13Plus5" -> "EAN13+5"
      [] b = "BarcodeEan8" -> "EAN8"
      [] b = "BarcodeEan8Plus2" -> "EAN8+2"
      [] b = "BarcodeEan8Plus5" -> "EAN8+5"
      [] b = "BarcodeCoda" -> "CODA"
      [] b = "BarcodePost" -> "POST"
      [] b = "BarcodeUpca" -> "UPCA"
      [] b = "BarcodeUpcaPlus2" -> "UPCA+2"
      [] b = "BarcodeUpaPlus5" -> "UPCA+5"
      [] b = "BarcodeUpce" -> "UPCE"
      [] b = "BarcodeUpcePlus2" -> "UPCE+2"
      [] b = "BarcodeUpePlus5" -> "UPCE+5"
      [] b = "BarcodeMsi" -> "MSI"
      [] b = "BarcodeMsic" -> "MSIC"
      [] b = "BarcodePlessey" -> "PLESSEY"
      [] b = "BarcodeCpost" -> "CPOST"
      [] b = "BarcodeItf14" -> "ITF14"
      [] b = "BarcodeEan14" -> "EAN14"
      [] b = "Barcode11" -> "11"
      [] b = "BarcodeTelepen" -> "TELEPEN"
      [] b = "BarcodeTelepenN" -> "TELEPENN"
      [] b = "BarcodePlanet" -> "PLANET"
      [] b = "BarcodeCode49" -> "CODE49"
      [] b = "BarcodeDpi" -> "DPI"
      [] b = "BarcodeDpl" -> "DPL"
      [] b = "BarcodeLogmars" -> "LOGMARS"

HumanReadableDisplay(h) ==
    CASE h = "NotReadable" -> "0" [] h = "ReadableAlignsToLeft" -> "1"
      [] h = "ReadableAlignsToCenter" -> "2"
      [] h = "ReadableAlignsToRight" -> "3"

NarrowWideDisplay(w) ==
    CASE w = "N1W1" -> "1,1" [] w = "N1W2" -> "1,2" [] w = "N1W3" -> "1,3"
      [] w = "N2W5" -> "2,5" [] w = "N3W7" -> "3,7"

\* faulty variant: the rotation is written before the human readable flag
barcode_cmd_rotation_first(x, y, code_type, height, human_readable, rotate, narrow_wide, alignment, content, res) ==
    LET head == "BARCODE " \o FmtU(to_dots_raw(x, res))
                \o "," \o FmtU(to_dots_raw(y, res))
                \o ",\"" \o BarcodeDisplay(code_type) \o "\","
                \o FmtU(to_dots_raw(height, res))
                \o "," \o RotationDisplay(rotate)
                \o "," \o HumanReadableDisplay(human_readable)
                \o "," \o NarrowWideDisplay(narrow_wide)
        tail == ", \"" \o content \o "\"" \o CRLF
    IN  IF alignment # None
        THEN Cmd(head \o "," \o AlignmentDisplay(alignment[1]) \o tail)
        ELSE Cmd(head \o tail)

barcode_cmd(x, y, code_type, height, human_readable, rotate, narrow_wide, alignment, content, res) ==
    LET head == "BARCODE " \o FmtU(to_dots_raw(x, res))
                \o "," \o FmtU(to_dots_raw(y, res))
                \o ",\"" \o BarcodeDisplay(code_type) \o "\","
                \o FmtU(to_dots_raw(height, res))
                \o "," \o HumanReadableDisplay(human_readable)
                \o "," \o RotationDisplay(rotate)
                \o "," \o NarrowWideDisplay(narrow_wide)
        tail == ", \"" \o content \o "\"" \o CRLF
    IN  IF alignment # None
        THEN Cmd(head \o "," \o AlignmentDisplay(alignment[1]) \o tail)
        ELSE Cmd(head \o tail)

\* Option::unwrap_or
unwrap_or(o, default) == IF o = None THEN default ELSE o[1]

tlc39_cmd(x, y, rotate, height, narrow, wide, cellwidth, cellheight, eci_number, serial_number, additional_data, res) ==
    Cmd("TLC39 " \o FmtU(to_dots_raw(x, res)) \o "," \o FmtU(to_dots_raw(y, res))
        \o "," \o RotationDisplay(rotate)
        \o "," \o FmtU(to_dots_raw(unwrap_or(height, Dots(40)), res))
        \o "," \o FmtU(to_dots_raw(unwrap_or(narrow, Dots(2)), res))
        \o "," \o FmtU(to_dots_raw(unwrap_or(wide, Dots(4)), res))
        \o "," \o FmtU(to_dots_raw(unwrap_or(cellwidth, Dots(2)), res))
        \o "," \o FmtU(to_dots_raw(unwrap_or(cellheight, Dots(4)), res))
        \o ", \"" \o eci_number \o "," \o serial_number \o ","
        \o additional_data \o "\"" \o CRLF)

codablock_cmd(x, y, rotate, row_height, module_width, content, res) ==
    Cmd("CODABLOCK " \o FmtU(to_dots_raw(x, res))
        \o "," \o FmtU(to_dots_raw(y, res))
        \o "," \o RotationDisplay(rotate)
        \o "," \o FmtU(to_dots_raw(unwrap_or(row_height, Dots(8)), res))
        \o "," \o FmtU(to_dots_raw(unwrap_or(module_width, Dots(8)), res))
        \o ",\"" \o content \o "\"" \o CRLF)

data_matrix_cmd(x, y, width, height, content, res) ==
    Cmd("DMATRIX " \o FmtU(to_dots_raw(x, res))
        \o "," \o FmtU(to_dots_raw(y, res))
        \o "," \o FmtU(to_dots_raw(width, res))
        \o "," \o FmtU(to_dots_raw(height, res))
        \o ", \"" \o content \o "\"" \o CRLF)

\* faulty variant: the content is written without its quotes
pdf417_cmd_unquoted(x_start, y_start, width, height, rotate, content, res) ==
    Cmd("PDF417 " \o FmtU(to_dots_raw(x_start, res))
        \o "," \o FmtU(to_dots_raw(y_start, res))
        \o "," \o FmtU(to_dots_raw(width, res))
        \o "," \o FmtU(to_dots_raw(height, res))
        \o "," \o RotationDisplay(rotate)
        \o "," \o content \o CRLF)

pdf417_cmd(x_start, y_start, width, height, rotate, content, res) ==
    Cmd("PDF417 " \o FmtU(to_dots_raw(x_start, res))
        \o "," \o FmtU(to_dots_raw(y_start, res))
        \o "," \o FmtU(to_dots_raw(width, res))
        \o "," \o FmtU(to_dots_raw(height, res))
        \o "," \o RotationDisplay(rotate)
        \o ",\"" \o content \o "\"" \o CRLF)

mpdf417_cmd(x_start, y_start, rotate, module_width, module_height, col_num, content, res) ==
    LET cols == IF col_num # None
                THEN (IF col_num[1] \in 1..4 THEN col_num[1] ELSE 0)
                ELSE 0
    IN  Cmd("MPDF417 " \o FmtU(to_dots_raw(x_start, res))
            \o "," \o FmtU(to_dots_raw(y_start, res))
            \o "," \o RotationDisplay(rotate)
            \o "," \o FmtU(to_dots_raw(unwrap_or(module_width, Dots(1)), res))
            \o "," \o FmtU(to_dots_raw(unwrap_or(module_height, Dots(10)), res))
            \o "," \o FmtU(cols)
            \o ", \"" \o content \o "\"" \o CRLF)

\* faulty variant: the two values of the pair change places
gap_detect_cmd_swapped(calib, res) ==
    IF calib # None
    THEN Cmd("GAPDETECT " \o FmtU(to_dots_raw(calib[1][2], res)) \o ","
             \o FmtU(to_dots_raw(calib[1][1], res)) \o CRLF)
    ELSE Cmd("GAPDETECT" \o CRLF)

\* lib.rs: the calibration pair is converted to dots
gap_detect_cmd(calib, res) ==
    IF calib # None
    THEN Cmd("GAPDETECT " \o FmtU(to_dots_raw(calib[1][1], res)) \o ","
             \o FmtU(to_dots_raw(calib[1][2], res)) \o CRLF)
    ELSE Cmd("GAPDETECT" \o CRLF)

bline_detect_cmd(calib, res) ==
    IF calib # None
    THEN Cmd("BLINEDETECT " \o FmtU(to_dots_raw(calib[1][1], res)) \o ","
             \o FmtU(to_dots_raw(calib[1][2], res)) \o CRLF)
    ELSE Cmd("BLINEDETECT" \o CRLF)

auto_detect_cmd(calib, res) ==
    IF calib # None
    THEN Cmd("AUTODETECT " \o FmtU(to_dots_raw(calib[1][1], res)) \o ","
             \o FmtU(to_dots_raw(calib[1][2], res)) \o CRLF)
    ELSE Cmd("AUTODETECT" \o CRLF)

\* printer.rs: the pair is given in dots and written as given
gap_detect_dot_cmd(dots) ==
    IF dots # None
    THEN Cmd("GAPDETECT " \o FmtU(dots[1][1]) \o "," \o FmtU(dots[1][2]) \o CRLF)
    ELSE Cmd("GAPDETECT" \o CRLF)

bline_detect_dot_cmd(dots) ==
    IF dots # None
    THEN Cmd("BLINEDETECT " \o FmtU(dots[1][1]) \o "," \o FmtU(dots[1][2]) \o CRLF)
    ELSE Cmd("BLINEDETECT" \o CRLF)

auto_detect_dot_cmd(dots) ==
    IF dots # None
    THEN Cmd("AUTODETECT " \o FmtU(dots[1][1]) \o "," \o FmtU(dots[1][2]) \o CRLF)
    ELSE Cmd("AUTODETECT" \o CRLF)

\* faulty variant: the lengths are written without their unit
bline_cmd_unitless(black_line_height, extra_feeding_len) ==
    Cmd("BLINE " \o FmtF32(black_line_height.neg, black_line_height.n,
                           black_line_height.s) \o ","
        \o FmtF32(extra_feeding_len.neg, extra_feeding_len.n,
                  extra_feeding_len.s) \o CRLF)

bline_cmd(black_line_height, extra_feeding_len) ==
    Cmd("BLINE " \o SizeDisplay(black_line_height) \o ","
        \o SizeDisplay(extra_feeding_len) \o CRLF)

offset_cmd(offset) == Cmd("OFFSET " \o SizeDisplay(offset) \o CRLF)

limit_feed_cmd(n, minpaper_maxgap) ==
    IF minpaper_maxgap # None
    THEN Cmd("LIMITFEED " \o SizeDisplay(n) \o ","
             \o SizeDisplay(minpaper_maxgap[1][1]) \o ","
             \o SizeDisplay(minpaper_maxgap[1][2]) \o CRLF)
    ELSE Cmd("LIMITFEED " \o SizeDisplay(n) \o CRLF)

bar_cmd(x_upper_left, y_upper_left, width, height, res) ==
    Cmd("BAR " \o FmtU(to_dots_raw(x_upper_left, res)) \o ","
        \o FmtU(to_dots_raw(y_upper_left, res)) \o ","
        \o FmtU(to_dots_raw(width, res)) \o ","
        \o FmtU(to_dots_raw(height, res)) \o CRLF)

rectangle_cmd(x_start, y_start, x_end, y_end, thickness, radius, res) ==
    Cmd("BOX " \o FmtU(to_dots_raw(x_start, res)) \o ","
        \o FmtU(to_dots_raw(y_start, res)) \o ","
        \o FmtU(to_dots_raw(x_end, res)) \o ","
        \o FmtU(to_dots_raw(y_end, res)) \o ","
        \o FmtU(to_dots_raw(thickness, res)) \o ","
        \o FmtU(to_dots_raw(unwrap_or(radius, Dots(0)), res)) \o CRLF)

circle_cmd(x_start, y_start, diameter, thickness, res) ==
    Cmd("CIRCLE " \o FmtU(to_dots_raw(x_start, res)) \o ","
        \o FmtU(to_dots_raw(y_start, res)) \o ","
        \o FmtU(to_dots_raw(diameter, res)) \o ","
        \o FmtU(to_dots_raw(thickness, res)) \o CRLF)

ellipse_cmd(x_upper_left, y_upper_left, width, height, thickness, res) ==
    Cmd("ELLIPSE " \o FmtU(to_dots_raw(x_upper_left, res)) \o ","
        \o FmtU(to_dots_raw(y_upper_left, res)) \o ","
        \o FmtU(to_dots_raw(width, res)) \o ","
        \o FmtU(to_dots_raw(height, res)) \o ","
        \o FmtU(to_dots_raw(thickness, res)) \o CRLF)

erase_cmd(x, y, width, height, res) ==
    Cmd("ERASE " \o FmtU(to_dots_raw(x, res)) \o ","
        \o FmtU(to_dots_raw(y, res)) \o ","
        \o FmtU(to_dots_raw(width, res)) \o ","
        \o FmtU(to_dots_raw(height, res)) \o CRLF)

reverse_cmd(x_start, y_start, width, height, res) ==
    Cmd("REVERSE " \o FmtU(to_dots_raw(x_start, res)) \o ","
        \o FmtU(to_dots_raw(y_start, res)) \o ","
        \o FmtU(to_dots_raw(width, res)) \o ","
        \o FmtU(to_dots_raw(height, res)) \o CRLF)

diagonal_cmd(x_start, y_start, x_end, y_end, thickness, res) ==
    Cmd("DIAGONAL " \o FmtU(to_dots_raw(x_start, res)) \o ","
        \o FmtU(to_dots_raw(y_start, res)) \o ","
        \o FmtU(to_dots_raw(x_end, res)) \o ","
        \o FmtU(to_dots_raw(y_end, res)) \o ","
        \o FmtU(to_dots_raw(thickness, res)) \o CRLF)

cls_cmd == Cmd("CLS" \o CRLF)

\* enum Country: the variants
Countries ==
    {"Usa", "CanadianFrench", "SpanishLatinAmerica", "Dutch", "Belgian",
     "French", "Spanish", "Hungarian", "Yugoslavian", "Italian", "Switzerland",
     "Slovak", "UnitedKingdom", "Danish", "Swedish", "Norwegian", "Polish",
     "German", "Brazil", "English", "Portuguese", "Finnish"}

\* `country as u16`: the discriminant of the variant
CountryU16(c) ==
    CASE c = "Usa" -> 1 [] c = "CanadianFrench" -> 2
      [] c = "SpanishLatinAmerica" -> 3 [] c = "Dutch" -> 31
      [] c = "Belgian" -> 32 [] c = "French" -> 33 [] c = "Spanish" -> 34
      [] c = "Hungarian" -> 36 [] c = "Yugoslavian" -> 38
      [] c = "Italian" -> 39 [] c = "Switzerland" -> 41 [] c = "Slovak" -> 42
      [] c = "UnitedKingdom" -> 44 [] c = "Danish" -> 45 [] c = "Swedish" -> 46
      [] c = "Norwegian" -> 47 [] c = "Polish" -> 48 [] c = "German" -> 49
      [] c = "Brazil" -> 55 [] c = "English" -> 61 [] c = "Portuguese" -> 351
      [] c = "Finnish" -> 358

\* faulty variant: the code is written without padding
country_cmd_unpadded(c) == Cmd("COUNTRY " \o FmtU(CountryU16(c)) \o CRLF)

\* format!("COUNTRY {:03}\r\n", country as u16)
country_cmd(c) == Cmd("COUNTRY " \o FmtPad(CountryU16(c), 3) \o CRLF)

\* a Codepage value: the variant of enum Codepage and the member it carries
CodepageOf(family, member) == [family |-> family, member |-> member]

Codepages ==
    { CodepageOf("Codepage7Bit", x) :
        x \in {"Usa", "British", "German", "French", "Danish", "Italian",
               "Spanish", "Swedish", "Swiss"} }
    \cup { CodepageOf("Codepage8Bit", x) :
        x \in {"UnitedStates", "Greek", "Multilingual", "Greek1", "Slavic",
               "Cyrillic", "Turkish", "Portuguese", "Icelandic", "Hebrew",
               "CanadianFrench", "Arabic", "Nordic", "Russian", "Greek2"} }
    \cup { CodepageOf("CodepageWindows", x) :
        x \in {"CentralEurope", "Cyrillic", "Latin1", "Greek", "Turkish",
               "Hebrew", "Arabic", "Baltic", "Vietnam", "Japanese",
               "ChineseSiplified", "Korean", "ChineseTraditional", "Utf8"} }
    \cup { CodepageOf("CodepageIso", x) :
        x \in {"Latin1", "Latin2", "Latin3", "Baltic", "Cyrillic", "Arabic",
               "Greek", "Hebrew", "Turkish", "Latin6", "Latin9"} }

\* printer.rs: `let code = match codepage { .. }`
code(codepage) ==
    LET x == codepage.member
    IN  CASE codepage.family = "Codepage7Bit" ->
               (CASE x = "Usa" -> "USA" [] x = "British" -> "BRI"
                  [] x = "German" -> "GER" [] x = "French" -> "FRE"
                  [] x = "Danish" -> "DAN" [] x = "Italian" -> "ITA"
                  [] x = "Spanish" -> "SPA" [] x = "Swedish" -> "SWE"
                  [] x = "Swiss" -> "SWI")
          [] codepage.family = "Codepage8Bit" ->
               (CASE x = "UnitedStates" -> "437" [] x = "Greek" -> "737"
                  [] x = "Multilingual" -> "850" [] x = "Greek1" -> "851"
                  [] x = "Slavic" -> "852" [] x = "Cyrillic" -> "855"
                  [] x = "Turkish" -> "857" [] x = "Portuguese" -> "860"
                  [] x = "Icelandic" -> "861" [] x = "Hebrew" -> "862"
                  [] x = "CanadianFrench" -> "863" [] x = "Arabic" -> "864"
                  [] x = "Nordic" -> "865" [] x = "Russian" -> "866"
                  [] x = "Greek2" -> "869")
          [] codepage.family = "CodepageWindows" ->
               (CASE x = "CentralEurope" -> "1250" [] x = "Cyrillic" -> "1251"
                  [] x = "Latin1" -> "1252" [] x = "Greek" -> "1253"
                  [] x = "Turkish" -> "1254" [] x = "Hebrew" -> "1255"
                  [] x = "Arabic" -> "1256" [] x = "Baltic" -> "1257"
                  [] x = "Vietnam" -> "1258" [] x = "Japanese" -> "932"
                  [] x = "ChineseSiplified" -> "936" [] x = "Korean" -> "949"
                  [] x = "ChineseTraditional" -> "950" [] x = "Utf8" -> "UTF-8")
          [] codepage.family = "CodepageIso" ->
               (CASE x = "Latin1" -> "8859-1" [] x = "Latin2" -> "8859-2"
                  [] x = "Latin3" -> "8859-3" [] x = "Baltic" -> "8859-4"
                  [] x = "Cyrillic" -> "8859-5" [] x = "Arabic" -> "8859-6"
                  [] x = "Greek" -> "8859-7" [] x = "Hebrew" -> "8859-8"
                  [] x = "Turkish" -> "8859-9" [] x = "Latin6" -> "8859-10"
                  [] x = "Latin9" -> "8859-15")

\* printer.rs: format!("CODEPAGE {code}\r\n")
codepage_code_cmd(codepage) == Cmd("CODEPAGE " \o code(codepage) \o CRLF)

\* lib.rs: #[derive(Display)] on enum Codepage, whose variants carry a member
\* and no strum attribute: the derived Display writes the name of the variant
\* and leaves the member it carries out
CodepageDisplay(codepage) == codepage.family

\* lib.rs: format!("CODEPAGE {codepage}\r\n")
codepage_cmd(codepage) == Cmd("CODEPAGE " \o CodepageDisplay(codepage) \o CRLF)

cut_cmd == Cmd("CUT" \o CRLF)

\* lib.rs: the length is converted at the session resolution, then checked
\* faulty variant: the range is checked on the length, not on its dot count
feed_cmd_checked_unconverted(feed, res) ==
    LET feed_dot == to_dots_raw(feed, res)
    IN  IF F32ToU32(F32Of(feed)) \in 0..9999
        THEN Cmd("FEED " \o FmtU(feed_dot) \o CRLF)
        ELSE Invalid

feed_cmd(feed, res) ==
    LET feed_dot == to_dots_raw(feed, res)
    IN  IF feed_dot \in 0..9999
        THEN Cmd("FEED " \o FmtU(feed_dot) \o CRLF)
        ELSE Invalid

backup_cmd(feed, res) ==
    LET feed_dot == to_dots_raw(feed, res)
    IN  IF feed_dot \in 0..9999
        THEN Cmd("BACKUP " \o FmtU(feed_dot) \o CRLF)
        ELSE Invalid

backfeed_cmd(feed, res) ==
    LET feed_dot == to_dots_raw(feed, res)
    IN  IF feed_dot \in 0..9999
        THEN Cmd("BACKFEED " \o FmtU(feed_dot) \o CRLF)
        ELSE Invalid

\* printer.rs: the argument is a u16 dot count
feed_dot_cmd(feed_dot) ==
    IF feed_dot \in 0..9999
    THEN Cmd("FEED " \o FmtU(feed_dot) \o CRLF)
    ELSE Invalid

backup_dot_cmd(feed_dot) ==
    IF feed_dot \in 0..9999
    THEN Cmd("BACKUP " \o FmtU(feed_dot) \o CRLF)
    ELSE Invalid

backfeed_dot_cmd(feed_dot) ==
    IF feed_dot \in 0..9999
    THEN Cmd("BACKFEED " \o FmtU(feed_dot) \o CRLF)
    ELSE Invalid

\* faulty variant: the number of copies is not checked
print_cmd_unchecked_copies(sets, copies) ==
    IF sets \in 1..999999999
    THEN IF copies # None
         THEN Cmd("PRINT " \o FmtU(sets) \o "," \o FmtU(copies[1]) \o CRLF)
         ELSE Cmd("PRINT " \o FmtU(sets) \o CRLF)
    ELSE Invalid

print_cmd(sets, copies) ==
    IF sets \in 1..999999999
    THEN IF copies # None
         THEN IF copies[1] \in 1..999999999
              THEN Cmd("PRINT " \o FmtU(sets) \o "," \o FmtU(copies[1]) \o CRLF)
              ELSE Invalid
         ELSE Cmd("PRINT " \o FmtU(sets) \o CRLF)
    ELSE Invalid

sound_cmd(level, interval) ==
    IF level \in 0..9 /\ interval \in 1..4095
    THEN Cmd("SOUND " \o FmtU(level) \o "," \o FmtU(interval) \o CRLF)
    ELSE Invalid

\* faulty variant: the terminator is left off
bitmap_cmd_unterminated(x, y, width_bytes, height_dots, mode, bitmap_data, res) ==
    Cmd("BITMAP " \o FmtU(to_dots_raw(x, res)) \o "," \o FmtU(to_dots_raw(y, res))
        \o "," \o FmtU(width_bytes) \o "," \o FmtU(height_dots)
        \o "," \o BitmapModeDisplay(mode) \o ","
        \o bitmap_data)

\* faulty variant: the payload is written as a quoted argument
bitmap_cmd_quoted(x, y, width_bytes, height_dots, mode, bitmap_data, res) ==
    Cmd("BITMAP " \o FmtU(to_dots_raw(x, res)) \o "," \o FmtU(to_dots_raw(y, res))
        \o "," \o FmtU(width_bytes) \o "," \o FmtU(height_dots)
        \o "," \o BitmapModeDisplay(mode) \o ","
        \o "\"" \o bitmap_data \o "\"" \o CRLF)

bitmap_cmd(x, y, width_bytes, height_dots, mode, bitmap_data, res) ==
    Cmd("BITMAP " \o FmtU(to_dots_raw(x, res)) \o "," \o FmtU(to_dots_raw(y, res))
        \o "," \o FmtU(width_bytes) \o "," \o FmtU(height_dots)
        \o "," \o BitmapModeDisplay(mode) \o ","
        \o bitmap_data \o CRLF)

\* faulty variant: the error control level is not checked
\* faulty variant: a symbol count of 0 is accepted
aztec_cmd_symbols_from_zero(x_start, y_start, rotate, size, ecp, flg, menu, multi, reversed, content, res) ==
    IF ~(size \in 1..20) THEN Invalid
    ELSE IF ecp > 300 THEN Invalid
    ELSE IF ~(multi \in 0..26) THEN Invalid
    ELSE Cmd("AZTEC " \o FmtU(to_dots_raw(x_start, res))
             \o "," \o FmtU(to_dots_raw(y_start, res))
             \o "," \o RotationDisplay(rotate)
             \o "," \o FmtU(size) \o "," \o FmtU(ecp)
             \o "," \o FmtU(BoolU8(flg)) \o "," \o FmtU(BoolU8(menu))
             \o "," \o FmtU(multi) \o "," \o FmtU(BoolU8(reversed))
             \o "," \o FmtU(Len(content)) \o "," \o content \o CRLF)

aztec_cmd_unchecked_ecp(x_start, y_start, rotate, size, ecp, flg, menu, multi, reversed, content, res) ==
    IF ~(size \in 1..20) THEN Invalid
    ELSE IF ~(multi \in 1..26) THEN Invalid
    ELSE Cmd("AZTEC " \o FmtU(to_dots_raw(x_start, res))
             \o "," \o FmtU(to_dots_raw(y_start, res))
             \o "," \o RotationDisplay(rotate)
             \o "," \o FmtU(size) \o "," \o FmtU(ecp)
             \o "," \o FmtU(BoolU8(flg)) \o "," \o FmtU(BoolU8(menu))
             \o "," \o FmtU(multi) \o "," \o FmtU(BoolU8(reversed))
             \o "," \o FmtU(Len(content)) \o "," \o content \o CRLF)

aztec_cmd(x_start, y_start, rotate, size, ecp, flg, menu, multi, reversed, content, res) ==
    IF ~(size \in 1..20) THEN Invalid
    ELSE IF ecp > 300 THEN Invalid
    ELSE IF ~(multi \in 1..26) THEN Invalid
    ELSE Cmd("AZTEC " \o FmtU(to_dots_raw(x_start, res))
             \o "," \o FmtU(to_dots_raw(y_start, res))
             \o "," \o RotationDisplay(rotate)
             \o "," \o FmtU(size) \o "," \o FmtU(ecp)
             \o "," \o FmtU(BoolU8(flg)) \o "," \o FmtU(BoolU8(menu))
             \o "," \o FmtU(multi) \o "," \o FmtU(BoolU8(reversed))
             \o "," \o FmtU(Len(content)) \o "," \o content \o CRLF)

\* faulty variant: level 7 is graded L
qrcode_cmd_l_upto_7(x_upper_left, y_upper_left, ecc_level, cellwidth_dot, rotate, justification, content, res) ==
    LET grade == IF ecc_level \in 0..7 THEN "L"
                 ELSE IF ecc_level \in 8..14 THEN "M"
                 ELSE IF ecc_level \in 15..24 THEN "Q"
                 ELSE "H"
    IN  IF ~(cellwidth_dot \in 1..10) THEN Invalid
        ELSE IF justification # None
        THEN Cmd("QRCODE " \o FmtU(to_dots_raw(x_upper_left, res))
                 \o "," \o FmtU(to_dots_raw(y_upper_left, res))
                 \o "," \o grade \o "," \o FmtU(cellwidth_dot) \o ",A,"
                 \o RotationDisplay(rotate)
                 \o "," \o QrCodeJustificationDisplay(justification[1])
                 \o ",\"" \o content \o "\"" \o CRLF)
        ELSE Cmd("QRCODE " \o FmtU(to_dots_raw(x_upper_left, res))
                 \o "," \o FmtU(to_dots_raw(y_upper_left, res))
                 \o "," \o grade \o "," \o FmtU(cellwidth_dot) \o ",A,"
                 \o RotationDisplay(rotate)
                 \o ",\"" \o content \o "\"" \o CRLF)

qrcode_cmd(x_upper_left, y_upper_left, ecc_level, cellwidth_dot, rotate, justification, content, res) ==
    LET grade == IF ecc_level \in 0..6 THEN "L"
                 ELSE IF ecc_level \in 7..14 THEN "M"
                 ELSE IF ecc_level \in 15..24 THEN "Q"
                 ELSE "H"
    IN  IF ~(cellwidth_dot \in 1..10) THEN Invalid
        ELSE IF justification # None
        THEN Cmd("QRCODE " \o FmtU(to_dots_raw(x_upper_left, res))
                 \o "," \o FmtU(to_dots_raw(y_upper_left, res))
                 \o "," \o grade \o "," \o FmtU(cellwidth_dot) \o ",A,"
                 \o RotationDisplay(rotate)
                 \o "," \o QrCodeJustificationDisplay(justification[1])
                 \o ",\"" \o content \o "\"" \o CRLF)
        ELSE Cmd("QRCODE " \o FmtU(to_dots_raw(x_upper_left, res))
                 \o "," \o FmtU(to_dots_raw(y_upper_left, res))
                 \o "," \o grade \o "," \o FmtU(cellwidth_dot) \o ",A,"
                 \o RotationDisplay(rotate)
                 \o ",\"" \o content \o "\"" \o CRLF)

\* faulty variant: RSS Expanded without a segment width is written all the same
rss_cmd_optional_segment(x_upper_left, y_upper_left, rss_type, rotate, module_width, separator_height, seg_width, lin_height, content, res) ==
    LET pix_mult == to_dots_raw(module_width, res)
        head == "RSS " \o FmtU(to_dots_raw(x_upper_left, res))
                \o "," \o FmtU(to_dots_raw(y_upper_left, res))
                \o ", \"" \o RssTypeDisplay(rss_type) \o "\","
                \o RotationDisplay(rotate) \o "," \o FmtU(pix_mult)
                \o "," \o FmtU(separator_height)
        tail == ", \"" \o content \o "\"" \o CRLF
    IN  IF ~(pix_mult \in 1..10) THEN Invalid
        ELSE IF separator_height # 1 /\ separator_height # 2 THEN Invalid
        ELSE IF rss_type = "RssExp"
        THEN IF seg_width # None
             THEN IF ~(seg_width[1] \in 2..22) THEN Invalid
                  ELSE Cmd(head \o "," \o FmtU(seg_width[1]) \o tail)
             ELSE Cmd(head \o tail)
        ELSE IF rss_type \in {"Ucc128Cca", "Ucc128Ccc"}
        THEN IF lin_height # None
             THEN IF ~(lin_height[1] \in 1..500) THEN Invalid
                  ELSE Cmd(head \o "," \o FmtU(lin_height[1]) \o tail)
             ELSE Invalid
        ELSE Cmd(head \o tail)

rss_cmd(x_upper_left, y_upper_left, rss_type, rotate, module_width, separator_height, seg_width, lin_height, content, res) ==
    LET pix_mult == to_dots_raw(module_width, res)
        head == "RSS " \o FmtU(to_dots_raw(x_upper_left, res))
                \o "," \o FmtU(to_dots_raw(y_upper_left, res))
                \o ", \"" \o RssTypeDisplay(rss_type) \o "\","
                \o RotationDisplay(rotate) \o "," \o FmtU(pix_mult)
                \o "," \o FmtU(separator_height)
        tail == ", \"" \o content \o "\"" \o CRLF
    IN  IF ~(pix_mult \in 1..10) THEN Invalid
        ELSE IF separator_height # 1 /\ separator_height # 2 THEN Invalid
        ELSE IF rss_type = "RssExp"
        THEN IF seg_width # None
             THEN IF ~(seg_width[1] \in 2..22) THEN Invalid
                  ELSE Cmd(head \o "," \o FmtU(seg_width[1]) \o tail)
             ELSE Invalid
        ELSE IF rss_type \in {"Ucc128Cca", "Ucc128Ccc"}
        THEN IF lin_height # None
             THEN IF ~(lin_height[1] \in 1..500) THEN Invalid
                  ELSE Cmd(head \o "," \o FmtU(lin_height[1]) \o tail)
             ELSE Invalid
        ELSE Cmd(head \o tail)

text_cmd(x, y, font, rotate, multiply_x, multiply_y, alignment, content, res) ==
    IF ~(multiply_x \in 1..10) \/ ~(multiply_y \in 1..10) THEN Invalid
    ELSE LET head == "TEXT " \o FmtU(to_dots_raw(x, res))
                     \o "," \o FmtU(to_dots_raw(y, res))
                     \o ",\"" \o FontDisplay(font) \o "\","
                     \o RotationDisplay(rotate)
                     \o "," \o FmtU(multiply_x) \o "," \o FmtU(multiply_y)
             tail == ", \"" \o content \o "\"" \o CRLF
         IN  IF alignment # None
             THEN Cmd(head \o "," \o AlignmentDisplay(alignment[1]) \o tail)
             ELSE Cmd(head \o tail)

\* faulty variant: a content of exactly 4096 bytes is rejected
block_cmd_below_4096(x, y, width, height, font, rotate, multiply_x, multiply_y, space, alignment, fit, content, res) ==
    IF ~(multiply_x \in 1..10) \/ ~(multiply_y \in 1..10) THEN Invalid
    ELSE IF Len(content) >= 4096 THEN Invalid
    ELSE LET cmd0 == "TEXT " \o FmtU(to_dots_raw(x, res))
                     \o "," \o FmtU(to_dots_raw(y, res))
                     \o "," \o FmtU(to_dots_raw(width, res))
                     \o "," \o FmtU(to_dots_raw(height, res))
                     \o ",\"" \o FontDisplay(font) \o "\","
                     \o RotationDisplay(rotate)
                     \o "," \o FmtU(multiply_x) \o "," \o FmtU(multiply_y) \o ","
             cmd1 == IF space # None
                     THEN cmd0 \o FmtU(to_dots_raw(space[1], res)) \o ","
                     ELSE cmd0
             cmd2 == IF alignment # None
                     THEN cmd1 \o AlignmentDisplay(alignment[1]) \o ","
                     ELSE cmd1
             cmd3 == IF fit # None
                     THEN cmd2 \o FmtU(BoolU8(fit[1])) \o ","
                     ELSE cmd2
         IN  Cmd(cmd3 \o "\"" \o content \o "\"" \o CRLF)

block_cmd(x, y, width, height, font, rotate, multiply_x, multiply_y, space, alignment, fit, content, res) ==
    IF ~(multiply_x \in 1..10) \/ ~(multiply_y \in 1..10) THEN Invalid
    ELSE IF Len(content) > 4096 THEN Invalid
    ELSE LET cmd0 == "TEXT " \o FmtU(to_dots_raw(x, res))
                     \o "," \o FmtU(to_dots_raw(y, res))
                     \o "," \o FmtU(to_dots_raw(width, res))
                     \o "," \o FmtU(to_dots_raw(height, res))
                     \o ",\"" \o FontDisplay(font) \o "\","
                     \o RotationDisplay(rotate)
                     \o "," \o FmtU(multiply_x) \o "," \o FmtU(multiply_y) \o ","
             cmd1 == IF space # None
                     THEN cmd0 \o FmtU(to_dots_raw(space[1], res)) \o ","
                     ELSE cmd0
             cmd2 == IF alignment # None
                     THEN cmd1 \o AlignmentDisplay(alignment[1]) \o ","
                     ELSE cmd1
             cmd3 == IF fit # None
                     THEN cmd2 \o FmtU(BoolU8(fit[1])) \o ","
                     ELSE cmd2
         IN  Cmd(cmd3 \o "\"" \o content \o "\"" \o CRLF)

-----------------------------------------------------------------------------
(* The session *)

\* printer.rs has no resolution field; lib.rs has none before construction
NoResolution == 0

\* a call as the caller writes it: the method and its arguments
Req(op, args) == [op |-> op, with |-> args]

\* the call of the chain that runs next, and its i-th argument
Cur    == plan[pos]
Arg(i) == plan[pos].with[i]

\* the chain in progress is about to call method op
Calling(op) ==
    /\ phase \in {"Configuring", "Ready"}
    /\ status = "running"
    /\ pos <= Len(plan)
    /\ plan[pos].op = op

\* the calls the caller made so far (the constructor's own calls left out)
CallerCalls == Len(SelectSeq(hist, LAMBDA h : ~h.ctor))

\* faulty variant: a validation error is dropped and the chain goes on
Return_go_on(res, buf, writes) ==
    /\ hist' = Append(hist, [req |-> Cur, at |-> pos, res |-> res,
                             writes |-> writes, ctor |-> phase = "Configuring"])
    /\ sink' = IF res = "Ok" THEN Append(sink, buf) ELSE sink
    /\ IF res \in {"Ok", "Validation"}
       THEN /\ pos' = pos + 1
            /\ status' = IF pos = Len(plan) THEN "done" ELSE "running"
            /\ phase' = IF pos = Len(plan) /\ phase = "Configuring"
                        THEN "Ready" ELSE phase
            /\ resolution' = resolution
       ELSE /\ pos' = pos
            /\ status' = IF res = "Panic" THEN "panicked" ELSE "failed"
            /\ phase' = IF phase = "Configuring" THEN "Failed" ELSE phase
            /\ resolution' = IF phase = "Configuring" THEN NoResolution
                             ELSE resolution
    /\ UNCHANGED <<impl, tape, dpi, plan, mark>>

\* faulty variant: a failed construction takes its output back
Return_rollback(res, buf, writes) ==
    /\ hist' = Append(hist, [req |-> Cur, at |-> pos, res |-> res,
                             writes |-> writes, ctor |-> phase = "Configuring"])
    /\ sink' = IF res = "Ok" THEN Append(sink, buf)
               ELSE IF phase = "Configuring" THEN <<>> ELSE sink
    /\ IF res = "Ok"
       THEN /\ pos' = pos + 1
            /\ status' = IF pos = Len(plan) THEN "done" ELSE "running"
            /\ phase' = IF pos = Len(plan) /\ phase = "Configuring"
                        THEN "Ready" ELSE phase
            /\ resolution' = resolution
       ELSE /\ pos' = pos
            /\ status' = IF res = "Panic" THEN "panicked" ELSE "failed"
            /\ phase' = IF phase = "Configuring" THEN "Failed" ELSE phase
            /\ resolution' = IF phase = "Configuring" THEN NoResolution
                             ELSE resolution
    /\ UNCHANGED <<impl, tape, dpi, plan, mark>>

\* The end of a method call.  Ok(self) hands the session to the next call of
\* the chain, or ends the chain after its last call; an Err leaves the chain
\* through `?`; a panic unwinds out of the chain.  The constructor's chain ends in
\* Ok(printer) or, on an Err, drops the half-built printer.
Return(res, buf, writes) ==
    /\ hist' = Append(hist, [req |-> Cur, at |-> pos, res |-> res,
                             writes |-> writes, ctor |-> phase = "Configuring"])
    /\ sink' = IF res = "Ok" THEN Append(sink, buf) ELSE sink
    /\ IF res = "Ok"
       THEN /\ pos' = pos + 1
            /\ status' = IF pos = Len(plan) THEN "done" ELSE "running"
            /\ phase' = IF pos = Len(plan) /\ phase = "Configuring"
                        THEN "Ready" ELSE phase
            /\ resolution' = resolution
       ELSE /\ pos' = pos
            /\ status' = IF res = "Panic" THEN "panicked" ELSE "failed"
            /\ phase' = IF phase = "Configuring" THEN "Failed" ELSE phase
            /\ resolution' = IF phase = "Configuring" THEN NoResolution
                             ELSE resolution
    /\ UNCHANGED <<impl, tape, dpi, plan, mark>>

\* faulty variant: a failed write is attempted a second time
write_all_retry(buf) ==
    \/ Return("Ok", buf, 1)
    \/ Return("Ok", buf, 2)
    \/ Return("Io", buf, 2)

\* self.file.write_all(cmd.as_bytes())?; Ok(self)
\* the device takes the whole buffer, or the write fails with an I/O error
write_all(buf) ==
    \/ Return("Ok", buf, 1)
    \/ Return("Io", buf, 1)

\* a method body: the command is built (or rejected), then written once
Run(c) ==
    IF c.valid THEN write_all(c.buf) ELSE Return("Validation", "", 0)

\* faulty variant: the gap is declared before the size
CtorPlan_gap_first ==
    IF impl = "lib"
    THEN << Req("gap", <<tape.gap, tape.gap_offset>>),
            Req("size", <<tape.width, tape.height>>),
            Req("cls", <<>>) >>
    ELSE << Req("gap", <<tape.gap, tape.gap_offset>>),
            Req("size", <<tape.width, tape.height>>) >>

\* faulty variant: no constructor clears the image buffer
CtorPlan_no_cls ==
    << Req("size", <<tape.width, tape.height>>),
       Req("gap", <<tape.gap, tape.gap_offset>>) >>

\* the chain the constructor runs on the printer it has just built
CtorPlan ==
    IF impl = "lib"
    THEN << Req("size", <<tape.width, tape.height>>),
            Req("gap", <<tape.gap, tape.gap_offset>>),
            Req("cls", <<>>) >>
    ELSE << Req("size", <<tape.width, tape.height>>),
            Req("gap", <<tape.gap, tape.gap_offset>>) >>

\* faulty variant: the session keeps a default resolution, not the one given
Open_default(res) ==
    /\ phase = "New"
    /\ \/ /\ phase' = "Configuring"
          /\ resolution' = IF impl = "lib" THEN 203 ELSE res
          /\ plan' = CtorPlan
          /\ pos' = 1
          /\ status' = "running"
       \/ /\ phase' = "Failed"
          /\ UNCHANGED <<resolution, plan, pos, status>>
    /\ UNCHANGED <<impl, tape, dpi, sink, mark, hist>>

\* File::options()...open(path)?  then  Self { file, resolution: dpi }
Open(res) ==
    /\ phase = "New"
    /\ \/ /\ phase' = "Configuring"
          /\ resolution' = res
          /\ plan' = CtorPlan
          /\ pos' = 1
          /\ status' = "running"
       \/ /\ phase' = "Failed"
          /\ UNCHANGED <<resolution, plan, pos, status>>
    /\ UNCHANGED <<impl, tape, dpi, sink, mark, hist>>

\* lib.rs  Printer::with_resolution(path, tape, dpi)
with_resolution == impl = "lib" /\ Open(dpi)

\* printer.rs  Printer::new(path, tape)
new == impl = "printer" /\ Open(NoResolution)

size == Calling("size") /\ Run(size_cmd(Arg(1), Arg(2)))

gap == Calling("gap") /\ Run(gap_cmd(Arg(1), Arg(2)))

cls == Calling("cls") /\ Run(cls_cmd)

cut == Calling("cut") /\ Run(cut_cmd)

country == Calling("country") /\ Run(country_cmd(Arg(1)))

codepage ==
    /\ Calling("codepage")
    /\ IF impl = "lib"
       THEN Run(codepage_cmd(Arg(1)))
       ELSE Run(codepage_code_cmd(Arg(1)))

density == Calling("density") /\ Run(density_cmd(Arg(1)))

\* faulty variant: the command is written to the device
display_written == Calling("display") /\ Run(Cmd("DISPLAY" \o CRLF))

\* unimplemented!(): the method returns nothing and panics
display == Calling("display") /\ Return("Panic", "", 0)

menu == Calling("menu") /\ Return("Panic", "", 0)

feed ==
    /\ Calling("feed")
    /\ IF impl = "lib" THEN Run(feed_cmd(Arg(1), resolution))
       ELSE Run(feed_dot_cmd(Arg(1)))

backup ==
    /\ Calling("backup")
    /\ IF impl = "lib" THEN Run(backup_cmd(Arg(1), resolution))
       ELSE Run(backup_dot_cmd(Arg(1)))

backfeed ==
    /\ Calling("backfeed")
    /\ IF impl = "lib" THEN Run(backfeed_cmd(Arg(1), resolution))
       ELSE Run(backfeed_dot_cmd(Arg(1)))

print == Calling("print") /\ Run(print_cmd(Arg(1), Arg(2)))

sound == Calling("sound") /\ Run(sound_cmd(Arg(1), Arg(2)))

bitmap ==
    /\ Calling("bitmap")
    /\ Run(bitmap_cmd(Arg(1), Arg(2), Arg(3), Arg(4), Arg(5), Arg(6), resolution))

aztec ==
    /\ Calling("aztec")
    /\ Run(aztec_cmd(Arg(1), Arg(2), Arg(3), Arg(4), Arg(5), Arg(6), Arg(7),
                     Arg(8), Arg(9), Arg(10), resolution))

qrcode ==
    /\ Calling("qrcode")
    /\ Run(qrcode_cmd(Arg(1), Arg(2), Arg(3), Arg(4), Arg(5), Arg(6), Arg(7),
                      resolution))

rss ==
    /\ Calling("rss")
    /\ Run(rss_cmd(Arg(1), Arg(2), Arg(3), Arg(4), Arg(5), Arg(6), Arg(7),
                   Arg(8), Arg(9), resolution))

text ==
    /\ Calling("text")
    /\ Run(text_cmd(Arg(1), Arg(2), Arg(3), Arg(4), Arg(5), Arg(6), Arg(7),
                    Arg(8), resolution))

block ==
    /\ Calling("block")
    /\ Run(block_cmd(Arg(1), Arg(2), Arg(3), Arg(4), Arg(5), Arg(6), Arg(7),
                     Arg(8), Arg(9), Arg(10), Arg(11), Arg(12), resolution))

barcode ==
    /\ Calling("barcode")
    /\ Run(barcode_cmd(Arg(1), Arg(2), Arg(3), Arg(4), Arg(5), Arg(6), Arg(7),
                       Arg(8), Arg(9), resolution))

tlc39 ==
    /\ Calling("tlc39")
    /\ Run(tlc39_cmd(Arg(1), Arg(2), Arg(3), Arg(4), Arg(5), Arg(6), Arg(7),
                     Arg(8), Arg(9), Arg(10), Arg(11), resolution))

codablock ==
    /\ Calling("codablock")
    /\ Run(codablock_cmd(Arg(1), Arg(2), Arg(3), Arg(4), Arg(5), Arg(6),
                         resolution))

data_matrix ==
    /\ Calling("data_matrix")
    /\ Run(data_matrix_cmd(Arg(1), Arg(2), Arg(3), Arg(4), Arg(5), resolution))

pdf417 ==
    /\ Calling("pdf417")
    /\ Run(pdf417_cmd(Arg(1), Arg(2), Arg(3), Arg(4), Arg(5), Arg(6),
                      resolution))

mpdf417 ==
    /\ Calling("mpdf417")
    /\ Run(mpdf417_cmd(Arg(1), Arg(2), Arg(3), Arg(4), Arg(5), Arg(6), Arg(7),
                       resolution))

gap_detect ==
    /\ Calling("gap_detect")
    /\ IF impl = "lib" THEN Run(gap_detect_cmd(Arg(1), resolution))
       ELSE Run(gap_detect_dot_cmd(Arg(1)))

bline_detect ==
    /\ Calling("bline_detect")
    /\ IF impl = "lib" THEN Run(bline_detect_cmd(Arg(1), resolution))
       ELSE Run(bline_detect_dot_cmd(Arg(1)))

auto_detect ==
    /\ Calling("auto_detect")
    /\ IF impl = "lib" THEN Run(auto_detect_cmd(Arg(1), resolution))
       ELSE Run(auto_detect_dot_cmd(Arg(1)))

bline ==
    /\ Calling("bline")
    /\ Run(bline_cmd(Arg(1), Arg(2)))

offset ==
    /\ Calling("offset")
    /\ Run(offset_cmd(Arg(1)))

limit_feed ==
    /\ Calling("limit_feed")
    /\ Run(limit_feed_cmd(Arg(1), Arg(2)))

bar ==
    /\ Calling("bar")
    /\ Run(bar_cmd(Arg(1), Arg(2), Arg(3), Arg(4), resolution))

rectangle ==
    /\ Calling("rectangle")
    /\ Run(rectangle_cmd(Arg(1), Arg(2), Arg(3), Arg(4), Arg(5), Arg(6), resolution))

circle ==
    /\ Calling("circle")
    /\ Run(circle_cmd(Arg(1), Arg(2), Arg(3), Arg(4), resolution))

ellipse ==
    /\ Calling("ellipse")
    /\ Run(ellipse_cmd(Arg(1), Arg(2), Arg(3), Arg(4), Arg(5), resolution))

erase ==
    /\ Calling("erase")
    /\ Run(erase_cmd(Arg(1), Arg(2), Arg(3), Arg(4), resolution))

reverse ==
    /\ Calling("reverse")
    /\ Run(reverse_cmd(Arg(1), Arg(2), Arg(3), Arg(4), resolution))

diagonal ==
    /\ Calling("diagonal")
    /\ Run(diagonal_cmd(Arg(1), Arg(2), Arg(3), Arg(4), Arg(5), resolution))

\* faulty variant: size and gap are public too
PublicOps_all ==
    IF impl = "lib"
    THEN {"size", "gap", "cls", "cut", "density", "display", "menu", "feed",
          "backup", "backfeed", "print", "sound", "bitmap", "aztec", "qrcode",
          "rss", "text", "block", "country", "codepage", "barcode", "tlc39",
          "codablock", "data_matrix", "pdf417", "mpdf417", "gap_detect",
          "bline_detect", "auto_detect", "bline", "offset", "limit_feed",
          "bar", "rectangle", "circle", "ellipse", "erase", "reverse",
          "diagonal"}
    ELSE {"size", "gap", "cls", "cut", "density", "display", "menu", "feed",
          "backup", "backfeed", "print", "sound", "country", "codepage",
          "gap_detect", "bline_detect", "auto_detect", "bline", "offset",
          "limit_feed"}

\* the `pub fn` methods of each Printer; size and gap are private (`fn`)
PublicOps ==
    IF impl = "lib"
    THEN {"cls", "cut", "density", "display", "menu", "feed", "backup",
          "backfeed", "print", "sound", "bitmap", "aztec", "qrcode", "rss",
          "text", "block", "country", "codepage", "barcode", "tlc39",
          "codablock", "data_matrix", "pdf417", "mpdf417", "gap_detect",
          "bline_detect", "auto_detect", "bline", "offset", "limit_feed",
          "bar", "rectangle", "circle", "ellipse", "erase", "reverse",
          "diagonal"}
    ELSE {"cls", "cut", "density", "display", "menu", "feed", "backup",
          "backfeed", "print", "sound", "country", "codepage", "gap_detect",
          "bline_detect", "auto_detect", "bline", "offset", "limit_feed"}

\* faulty variant: a session whose last chain failed takes no further call
chain_after_ok(p) ==
    /\ phase = "Ready"
    /\ status = "done"
    /\ p # <<>>
    /\ \A i \in 1..Len(p) : p[i].op \in PublicOps
    /\ \A i \in 1..(Len(p) - 1) : p[i].op \notin {"display", "menu"}
    /\ plan' = p
    /\ pos' = 1
    /\ status' = "running"
    /\ mark' = [hist |-> Len(hist), sink |-> Len(sink)]
    /\ UNCHANGED <<impl, tape, dpi, phase, resolution, sink, hist>>

\* The caller, holding a constructed session, starts a chain of calls p.
\* It can do so after a chain that ended in Ok, in an Err it handled or in a
\* panic it caught; it cannot name a private method.  display and menu return
\* (), not the session, so nothing can be chained after them.
chain(p) ==
    /\ phase = "Ready"
    /\ status \in {"done", "failed", "panicked"}
    /\ p # <<>>
    /\ \A i \in 1..Len(p) : p[i].op \in PublicOps
    /\ \A i \in 1..(Len(p) - 1) : p[i].op \notin {"display", "menu"}
    /\ plan' = p
    /\ pos' = 1
    /\ status' = "running"
    /\ mark' = [hist |-> Len(hist), sink |-> Len(sink)]
    /\ UNCHANGED <<impl, tape, dpi, phase, resolution, sink, hist>>

-----------------------------------------------------------------------------
(* The inputs explored *)

\* the tape of examples/simple.rs and one that uses the other Size variants
Tapes ==
    { [width |-> Metric(300, 1), height |-> Some(Metric(200, 1)),
       gap |-> Metric(20, 1), gap_offset |-> None],
      [width |-> Imperial(15, 1), height |-> None,
       gap |-> Dots(24), gap_offset |-> Some(Dots(0))] }

Resolutions == {203, 300}

\* str repeated 2^k times
RECURSIVE Repeat(_, _)
Repeat(str, k) == IF k = 0 THEN str ELSE Repeat(str \o str, k - 1)

\* contents of 12, 4096 and 4097 bytes
Contents == {"0123456789AB", Repeat("0123456789ABCDEF", 8),
             Repeat("0123456789ABCDEF", 8) \o "X"}

Lengths == {Dots(0), Dots(9999), Dots(10000), Metric(150, 1), Metric(1, 1),
            Metric(10000, 1), Imperial(10, 0), Imperial(50, 0),
            [Metric(10, 1) EXCEPT !.neg = TRUE]}

\* lengths of 2^32 dots and more, at 203 and at 300 dpi
OverRange == {Imperial(1073741824, 0), Metric(1000000000, 0)}

\* a length below zero
Negative == [Metric(10, 1) EXCEPT !.neg = TRUE]

\* the calls out of which the caller builds its chains
ChainRequests ==
    { Req("cls", <<>>), Req("cut", <<>>), Req("density", <<8>>),
      Req("density", <<99>>), Req("display", <<>>), Req("menu", <<>>) }

\* what a caller would write to declare the tape geometry again
GeometryRequests ==
    { Req("size", <<tape.width, tape.height>>),
      Req("gap", <<tape.gap, tape.gap_offset>>) }

ChainPlans(len) ==
    UNION { [1..n -> ChainRequests \cup GeometryRequests] : n \in 1..len }

\* single calls, at and around every documented limit
CallRequests ==
    { Req("cls", <<>>), Req("cut", <<>>), Req("display", <<>>), Req("menu", <<>>) }
    \cup { Req("density", <<d>>) : d \in {0, 1, 8, 15, 16, 99, 255} }
    \cup { Req("country", <<c>>) : c \in Countries }
    \cup { Req("codepage", <<cp>>) : cp \in Codepages }
    \cup { Req("print", <<sets, copies>>) :
             sets \in {0, 1, 999999999, 1000000000},
             copies \in {None, Some(0), Some(1), Some(999999999), Some(1000000000)} }
    \cup { Req("sound", <<level, interval>>) :
             level \in {0, 9, 10}, interval \in {0, 1, 4095, 4096} }
    \cup ( IF impl = "lib"
           THEN { Req(op, <<len>>) : op \in {"feed", "backup", "backfeed"},
                                     len \in Lengths }
           ELSE { Req(op, <<n>>) : op \in {"feed", "backup", "backfeed"},
                                   n \in {0, 1, 9999, 10000, 65535} } )
    \cup { Req("bitmap", <<Metric(150, 1), Dots(3), 1, 2, mode, data>>) :
             mode \in {"Overwrite", "Or", "Xor"},
             data \in {"", "ab", "\r\n", ",\""} }
    \cup { Req("aztec", <<Metric(150, 1), Dots(0), "NoRotation", sz, ecp, TRUE,
                          FALSE, multi, FALSE, "0123456789AB">>) :
             sz \in {0, 1, 20, 21}, ecp \in {0, 300, 301},
             multi \in {0, 1, 26, 27} }
    \cup { Req("qrcode", <<Metric(90, 1), Metric(0, 0), ecc, cw, "NoRotation",
                           just, "0123456789AB">>) :
             ecc \in {0, 6, 7, 14, 15, 24, 25, 35}, cw \in {0, 1, 6, 10, 11},
             just \in {None, Some("Center")} }
    \cup { Req("qrcode", <<Metric(90, 1), Metric(0, 0), 35, 6, rot, Some(just),
                           "0123456789AB">>) :
             rot \in {"NoRotation", "Rotation270"},
             just \in {"UpperLeft", "UpperCenter", "UpperRight", "CenterLeft",
                       "Center", "CenterRight", "BottomLeft", "BottomCenter",
                       "BottomRight"} }
    \cup { Req("rss", <<Dots(10), Dots(20), type, "Rotation90", mw, sep, seg,
                        lin, "0123456789AB">>) :
             type \in {"Rss14", "RssExp", "Ucc128Cca", "Ucc128Ccc"},
             mw \in {Dots(0), Dots(1), Dots(10), Dots(11), Metric(1, 0)},
             sep \in {0, 1, 2, 3},
             seg \in {None, Some(1), Some(2), Some(22), Some(23)},
             lin \in {None, Some(0), Some(1), Some(500), Some(501)} }
    \cup { Req("text", <<Metric(150, 1), Metric(145, 1), "Font24x32",
                         "NoRotation", mx, my, al, "0123456789AB">>) :
             mx \in {0, 1, 10, 11}, my \in {0, 1, 10, 11},
             al \in {None, Some("Center")} }
    \cup { Req("block", <<Dots(1), Dots(2), Dots(300), Dots(200), "Font8x12",
                          "Rotation180", mx, my, sp, al, fit, content>>) :
             mx \in {0, 1, 10, 11}, my \in {1, 11},
             sp \in {None, Some(Dots(4))}, al \in {None, Some("Left")},
             fit \in {None, Some(TRUE)}, content \in Contents }
    \cup { Req("barcode", <<Metric(150, 1), Metric(0, 0), type, Metric(150, 1),
                            hr, rot, nw, al, "0123456789AB">>) :
             type \in {"Barcode39", "Barcode128", "BarcodeEan13Plus2"},
             hr \in {"NotReadable", "ReadableAlignsToCenter"},
             rot \in {"NoRotation", "Rotation90"},
             nw \in {"N1W3", "N3W7"},
             al \in {None, Some("Center"), Some("Right")} }
    \cup { Req("tlc39", <<Dots(10), Dots(20), "NoRotation", h, None, wd,
                          Some(Dots(3)), None, "123456", "ABCD", data>>) :
             h \in {None, Some(Metric(50, 1))}, wd \in {None, Some(Dots(5))},
             data \in {"0123456789AB", "a\"b"} }
    \cup { Req("codablock", <<Dots(10), Dots(20), "Rotation90", rh, mw, data>>) :
             rh \in {None, Some(Dots(16))}, mw \in {None, Some(Metric(1, 0))},
             data \in {"0123456789AB", "a\"b"} }
    \cup { Req("data_matrix", <<Dots(10), Dots(20), Dots(400), Metric(100, 1),
                                data>>) :
             data \in {"0123456789AB", "a\"b"} }
    \cup { Req("pdf417", <<Dots(10), Dots(20), Dots(400), Dots(200), rot, data>>) :
             rot \in {"NoRotation", "Rotation180"},
             data \in {"0123456789AB", "a\"b"} }
    \cup { Req("mpdf417", <<Dots(10), Dots(20), "NoRotation", mw, None, cols,
                            data>>) :
             mw \in {None, Some(Dots(2))},
             cols \in {None, Some(0), Some(1), Some(4), Some(5)},
             data \in {"0123456789AB", "a\"b"} }
    \cup { Req("barcode", <<Dots(10), Dots(20), "Barcode128", Dots(80),
                            "NotReadable", "NoRotation", "N1W1", None, "a\"b">>),
           Req("text", <<Dots(10), Dots(20), "Font8x12", "NoRotation", 1, 1,
                         None, "a\"b">>),
           Req("qrcode", <<Dots(10), Dots(20), 7, 4, "NoRotation", None,
                           "a\"b">>),
           Req("rss", <<Dots(10), Dots(20), "Rss14", "NoRotation", Dots(2), 1,
                        None, None, "a\"b">>),
           Req("aztec", <<Dots(10), Dots(20), "NoRotation", 5, 0, FALSE, FALSE,
                          1, FALSE, "a\"b">>) }
    \cup { Req(op, <<Dots(10), Metric(150, 1), w, Dots(40)>>) :
             op \in {"bar", "circle", "erase", "reverse"},
             w \in {Dots(3), Imperial(10, 1)} }
    \cup { Req(op, <<Dots(10), Metric(150, 1), w, Dots(40), Dots(2)>>) :
             op \in {"ellipse", "diagonal"}, w \in {Dots(3), Imperial(10, 1)} }
    \cup { Req("rectangle", <<Dots(10), Metric(150, 1), Dots(300), Dots(40),
                              Dots(2), radius>>) :
             radius \in {None, Some(Dots(5))} }
    \cup { Req(op, <<len>>) : op \in (IF impl = "lib"
                                      THEN {"feed", "backup", "backfeed"}
                                      ELSE {}),
                               len \in OverRange }
    \cup { Req("bar", <<Dots(10), Dots(20), w, Dots(40)>>) :
             w \in OverRange \cup {Negative, Imperial(10000000, 0)} }

-----------------------------------------------------------------------------
(* The specifications *)

Init ==
    /\ impl \in {"lib", "printer"}
    /\ tape \in Tapes
    /\ dpi \in (IF impl = "lib" THEN Resolutions ELSE {NoResolution})
    /\ phase = "New"
    /\ resolution = NoResolution
    /\ sink = <<>>
    /\ plan = <<>>
    /\ pos = 1
    /\ status = "idle"
    /\ mark = [hist |-> 0, sink |-> 0]
    /\ hist = <<>>

\* a session on which the caller runs chains of up to MaxCalls calls in all
Next ==
    \/ with_resolution
    \/ new
    \/ size
    \/ gap
    \/ cls
    \/ cut
    \/ density
    \/ display
    \/ menu
    \/ /\ phase = "Ready"
       /\ status \in {"done", "failed", "panicked"}
       /\ \E p \in ChainPlans(MaxCalls - CallerCalls) : chain(p)

Spec == Init /\ [][Next]_vars

\* a session on which the caller makes one call, any method, any argument
NextCall ==
    \/ with_resolution
    \/ new
    \/ size
    \/ gap
    \/ cls
    \/ cut
    \/ density
    \/ display
    \/ menu
    \/ feed
    \/ backup
    \/ backfeed
    \/ print
    \/ sound
    \/ bitmap
    \/ aztec
    \/ qrcode
    \/ rss
    \/ text
    \/ block
    \/ country
    \/ codepage
    \/ barcode
    \/ tlc39
    \/ codablock
    \/ data_matrix
    \/ pdf417
    \/ mpdf417
    \/ bar
    \/ rectangle
    \/ circle
    \/ ellipse
    \/ erase
    \/ reverse
    \/ diagonal
    \/ /\ phase = "Ready"
       /\ status = "done"
       /\ CallerCalls = 0
       /\ \E r \in CallRequests : chain(<<r>>)

SpecCall == Init /\ [][NextCall]_vars

MaxSetupCalls == 2

\* the calls that set the printer up for the medium
SetupRequests ==
    { Req("bline", <<Metric(25, 1), Dots(0)>>),
      Req("bline", <<Imperial(1, 1), Metric(20, 1)>>) }
    \cup { Req("offset", <<o>>) :
             o \in {Metric(25, 1), Imperial(15, 1), Dots(8)} }
    \cup { Req("limit_feed", <<n, m>>) :
             n \in {Metric(300, 1)},
             m \in {None, Some(<<Imperial(15, 1), Dots(24)>>),
                    Some(<<Metric(5, 1), Metric(1234, 2)>>)} }
    \cup (IF impl = "lib"
          THEN { Req(op, <<c>>) :
                   op \in {"gap_detect", "bline_detect", "auto_detect"},
                   c \in {None, Some(<<Dots(1), Dots(1)>>)} }
               \cup { Req("gap_detect", <<Some(<<Metric(150, 1), Imperial(10, 0)>>)>>) }
          ELSE { Req(op, <<c>>) :
                   op \in {"gap_detect", "bline_detect", "auto_detect"},
                   c \in {None, Some(<<1, 1>>)} }
               \cup { Req("gap_detect", <<Some(<<8, 200>>)>>) })

SetupPlans(len) == UNION { [1..n -> SetupRequests] : n \in 1..len }

\* a session on which the caller runs chains of up to MaxSetupCalls setup calls
NextSetup ==
    \/ with_resolution
    \/ new
    \/ size
    \/ gap
    \/ cls
    \/ gap_detect
    \/ bline_detect
    \/ auto_detect
    \/ bline
    \/ offset
    \/ limit_feed
    \/ /\ phase = "Ready"
       /\ status \in {"done", "failed", "panicked"}
       /\ \E p \in SetupPlans(MaxSetupCalls - CallerCalls) : chain(p)

SpecSetup == Init /\ [][NextSetup]_vars

\* lengths of label size, in the three units
DotLengths ==
    { Metric(1, 1), Metric(150, 1), Metric(145, 1), Metric(90, 1),
      Metric(20, 1), Metric(300, 1), Metric(200, 1), Metric(254, 1),
      Metric(762, 1), Metric(1000, 1), Metric(127, 1), Metric(0, 0),
      Imperial(21, 2), Imperial(7, 1), Imperial(10, 1), Imperial(15, 1),
      Imperial(1, 2), Imperial(39, 2), Imperial(4, 0),
      Dots(0), Dots(1), Dots(24), Dots(9999), Dots(65535) }

\* the resolutions of common print heads
DotResolutions == {203, 300, 600}

\* resolutions a u32 can hold, below and above 2^24
WideResolutions ==
    {1, 2, 203, 300, 16777215, 16777216, 16777217, 16777219, 33554433,
     100000001, 2147483583}

\* the pairs (length, resolution) on which to_dots_raw is applied
DotInputs ==
    { <<len, r>> : len \in DotLengths, r \in DotResolutions }
    \cup { <<len, r>> : len \in {Metric(254, 1), Imperial(10, 1)},
                         r \in WideResolutions }

\* one application of Size::to_dots_raw, outside any session
InitDots ==
    /\ impl = "lib"
    /\ tape \in Tapes
    /\ phase = "New"
    /\ resolution = NoResolution
    /\ sink = <<>>
    /\ pos = 1
    /\ status = "running"
    /\ mark = [hist |-> 0, sink |-> 0]
    /\ hist = <<>>
    /\ \E in \in DotInputs :
          /\ dpi = in[2]
          /\ plan = << Req("to_dots_raw", <<in[1]>>) >>

\* length.to_dots_raw(dpi): the result is kept with the call in the history
to_dots ==
    /\ phase = "New"
    /\ status = "running"
    /\ pos <= Len(plan)
    /\ Cur.op = "to_dots_raw"
    /\ hist' = Append(hist, [req |-> Cur, at |-> pos, res |-> "Ok", writes |-> 0,
                             ctor |-> FALSE,
                             dots |-> to_dots_raw(Arg(1), dpi)])
    /\ pos' = pos + 1
    /\ status' = "done"
    /\ UNCHANGED <<impl, tape, dpi, phase, resolution, sink, plan, mark>>

NextDots == to_dots

SpecDots == InitDots /\ [][NextDots]_vars

-----------------------------------------------------------------------------
(* Properties *)

Last == hist[Len(hist)]

StartsWith(str, pre) == Len(str) >= Len(pre) /\ SubSeq(str, 1, Len(pre)) = pre

EndsWith(str, suf) ==
    Len(str) >= Len(suf) /\ SubSeq(str, Len(str) - Len(suf) + 1, Len(str)) = suf

\* the calls of hist that returned Ok(self), by index
OkCalls == {i \in 1..Len(hist) : hist[i].res = "Ok"}

\* the chain in progress was started by the caller on a constructed session
CallerChain == phase = "Ready" /\ mark.hist > 0

\* the wire line of a call of ChainRequests, written out by hand
ExpectedLine(r) ==
    CASE r.op = "cls"     -> "CLS\r\n"
      [] r.op = "cut"     -> "CUT\r\n"
      [] r.op = "density" -> "DENSITY " \o ToString(r.with[1]) \o "\r\n"
      [] OTHER            -> "no line"

\* the table of constraints of the validator: request r breaks one of them
InRange(v, lo, hi) == lo <= v /\ v <= hi

Violates(r) ==
    CASE r.op = "density" -> ~InRange(r.with[1], 1, 15)
      [] r.op = "print" ->
            \/ ~InRange(r.with[1], 1, 999999999)
            \/ r.with[2] # None /\ ~InRange(r.with[2][1], 1, 999999999)
      [] r.op = "sound" ->
            ~InRange(r.with[1], 0, 9) \/ ~InRange(r.with[2], 1, 4095)
      [] r.op \in {"feed", "backup", "backfeed"} ->
            IF impl = "lib"
            THEN ~InRange(to_dots_raw(r.with[1], dpi), 0, 9999)
            ELSE ~InRange(r.with[1], 0, 9999)
      [] r.op = "text" ->
            ~InRange(r.with[5], 1, 10) \/ ~InRange(r.with[6], 1, 10)
      [] r.op = "block" ->
            \/ ~InRange(r.with[7], 1, 10) \/ ~InRange(r.with[8], 1, 10)
            \/ Len(r.with[12]) > 4096
      [] r.op = "qrcode" -> ~InRange(r.with[4], 1, 10)
      [] r.op = "aztec" ->
            \/ ~InRange(r.with[4], 1, 20)
            \/ r.with[5] > 300
            \/ ~InRange(r.with[8], 1, 26)
      [] r.op = "rss" ->
            \/ ~InRange(to_dots_raw(r.with[5], dpi), 1, 10)
            \/ r.with[6] \notin {1, 2}
            \/ r.with[3] = "RssExp" /\ r.with[7] # None
                 /\ ~InRange(r.with[7][1], 2, 22)
            \/ r.with[3] \in {"Ucc128Cca", "Ucc128Ccc"} /\ r.with[8] # None
                 /\ ~InRange(r.with[8][1], 1, 500)
      [] OTHER -> FALSE

\* C1: a call of density, print, sound, feed, backup, backfeed, text, block,
\* qrcode, aztec or rss that breaks a constraint of the validator returns an
\* error, makes no write, and leaves the sink and the resolution as they were.
C1_ViolationWritesNothing ==
    [][ (Len(hist') = Len(hist) + 1 /\ Violates(hist'[Len(hist')].req))
        => /\ hist'[Len(hist')].res = "Validation"
           /\ hist'[Len(hist')].writes = 0
           /\ sink' = sink
           /\ resolution' = resolution ]_vars

C1_Witness ==
    /\ phase = "Ready" /\ hist # <<>>
    /\ Last.req.op = "rss" /\ Last.req.with[3] = "Ucc128Ccc"
    /\ Last.req.with[8] = Some(501)
    /\ Last.res = "Validation"

TheChain == << Req("cls", <<>>), Req("density", <<99>>), Req("cut", <<>>) >>

\* C2: a chain stops at its first failing step k: its steps were attempted in
\* order, only the last attempted one can have failed, the sink received
\* exactly the lines of the steps before it, the chain ended with that step's
\* error, and nothing after it ran.  [cls, density(99), cut] writes "CLS\r\n",
\* fails at density with a validation error and never writes "CUT\r\n".
C2_ChainStopsAtFirstFailure ==
    CallerChain =>
        LET n  == Len(hist) - mark.hist
            ok == {i \in 1..n : hist[mark.hist + i].res = "Ok"}
        IN  /\ n <= Len(plan)
            /\ \A i \in 1..n : /\ hist[mark.hist + i].req = plan[i]
                               /\ hist[mark.hist + i].at = i
            /\ \A i \in 1..(n - 1) : hist[mark.hist + i].res = "Ok"
            /\ Len(sink) - mark.sink = Cardinality(ok)
            /\ \A i \in ok : sink[mark.sink + i] = ExpectedLine(plan[i])
            /\ status = "failed" =>
                  n = pos /\ hist[mark.hist + n].res \in {"Validation", "Io"}
            /\ status = "done" => n = Len(plan) /\ ok = 1..n
            /\ (plan = TheChain /\ n >= 2) =>
                  /\ n = 2
                  /\ status = "failed"
                  /\ Last.res = "Validation"
                  /\ SubSeq(sink, mark.sink + 1, Len(sink)) = <<"CLS\r\n">>

C2_Witness ==
    /\ CallerChain /\ plan = TheChain
    /\ status = "failed" /\ pos = 2
    /\ sink[Len(sink)] = "CLS\r\n"

\* the opcode keywords of the commands modelled
Keywords ==
    {"SIZE", "GAP", "CLS", "CUT", "DENSITY", "FEED", "BACKUP", "BACKFEED",
     "PRINT", "SOUND", "BITMAP", "AZTEC", "QRCODE", "RSS", "TEXT",
     "COUNTRY", "CODEPAGE", "BARCODE", "TLC39", "CODABLOCK", "DMATRIX",
     "PDF417", "MPDF417", "GAPDETECT", "BLINEDETECT", "AUTODETECT", "BLINE",
     "OFFSET", "LIMITFEED", "BAR", "BOX", "CIRCLE", "ELLIPSE", "ERASE",
     "REVERSE", "DIAGONAL"}

WholeCommand(line) ==
    /\ EndsWith(line, "\r\n")
    /\ \E k \in Keywords : StartsWith(line, k \o " ") \/ line = k \o "\r\n"

\* C3: no partial command is written: a call hands the sink at most one buffer,
\* only after its validation has passed, and every buffer in the sink is one
\* whole command, from its opcode keyword to its CRLF.
C3_NoPartialCommand ==
    /\ \A i \in 1..Len(hist) :
          /\ hist[i].writes <= 1
          /\ hist[i].res = "Validation" => hist[i].writes = 0
          /\ hist[i].res = "Ok" => hist[i].writes = 1
    /\ Len(sink) = Cardinality(OkCalls)
    /\ \A j \in 1..Len(sink) : WholeCommand(sink[j])

C3_Witness ==
    /\ phase = "Ready" /\ hist # <<>>
    /\ Last.req.op = "block" /\ Last.res = "Ok"
    /\ Last.req.with[9] # None /\ Last.req.with[10] # None
    /\ Last.req.with[11] # None
    /\ Len(Last.req.with[12]) = 4096
    /\ WholeCommand(sink[Len(sink)])

\* C4: construction opens the sink, writes SIZE, then GAP, and only then is
\* the session Ready: SIZE is the first line of the sink, GAP the second, and
\* every call of the caller comes after both.  If the open fails there is no
\* session and nothing is written.
C4_ConstructionOrder ==
    /\ phase = "New" => sink = <<>> /\ hist = <<>>
    /\ (phase = "Failed" /\ hist = <<>>) =>
          sink = <<>> /\ status = "idle" /\ resolution = NoResolution
    /\ Len(sink) >= 1 => StartsWith(sink[1], "SIZE ")
    /\ Len(sink) >= 2 => StartsWith(sink[2], "GAP ")
    /\ phase = "Ready" =>
          /\ Len(sink) >= 2
          /\ hist[1].req.op = "size" /\ hist[1].res = "Ok" /\ hist[1].ctor
          /\ hist[2].req.op = "gap" /\ hist[2].res = "Ok" /\ hist[2].ctor
    /\ \A i \in 1..Len(hist) : ~hist[i].ctor => (i > 2 /\ phase = "Ready")

C4_Witness ==
    /\ phase = "Ready" /\ status = "done" /\ CallerCalls = 2
    /\ StartsWith(sink[1], "SIZE ") /\ StartsWith(sink[2], "GAP ")
    /\ sink[Len(sink)] = "CUT\r\n"

\* C5: a call whose write fails made exactly one write attempt, returned the
\* I/O error and left the sink alone; it is the last call of its chain: what
\* follows it in the history, if anything, is the first step of a new chain.
C5_WriteFailureNoRetry ==
    /\ \A i \in 1..Len(hist) :
          hist[i].res = "Io" =>
             /\ hist[i].writes = 1
             /\ i < Len(hist) => (~hist[i].ctor /\ hist[i + 1].at = 1)
             /\ i = Len(hist) =>
                   IF hist[i].ctor THEN phase = "Failed"
                   ELSE \/ status = "failed"
                        \/ status = "running" /\ pos = 1 /\ mark.hist = i
    /\ Len(sink) = Cardinality(OkCalls)

C5_Witness ==
    /\ CallerChain /\ status = "failed"
    /\ Last.res = "Io" /\ Last.writes = 1
    /\ pos < Len(plan)
    /\ Len(sink) = mark.sink + pos - 1

\* C6: the resolution of a lib.rs session is the dpi given to the constructor
\* in every state of the session, and the dot counts it writes are converted
\* at that dpi: feed(Metric(15.0)) writes 119 dots at 203 dpi and 177 at 300.
C6_ResolutionFixed ==
    /\ (impl = "lib" /\ phase \in {"Configuring", "Ready"}) => resolution = dpi
    /\ (impl = "lib" /\ hist # <<>> /\ Last.res = "Ok") =>
          /\ Last.req.op = "feed" =>
                sink[Len(sink)] =
                   "FEED " \o ToString(to_dots_raw(Last.req.with[1], dpi)) \o "\r\n"
          /\ Last.req.op = "backup" =>
                sink[Len(sink)] =
                   "BACKUP " \o ToString(to_dots_raw(Last.req.with[1], dpi)) \o "\r\n"
          /\ Last.req.op = "backfeed" =>
                sink[Len(sink)] =
                   "BACKFEED " \o ToString(to_dots_raw(Last.req.with[1], dpi)) \o "\r\n"
          /\ Last.req = Req("feed", <<Metric(150, 1)>>) =>
                sink[Len(sink)] =
                   (IF dpi = 203 THEN "FEED 119\r\n" ELSE "FEED 177\r\n")

C6_Witness ==
    /\ impl = "lib" /\ phase = "Ready" /\ dpi = 203 /\ resolution = 203
    /\ hist # <<>> /\ Last.req = Req("feed", <<Metric(150, 1)>>)
    /\ sink[Len(sink)] = "FEED 119\r\n"

\* C7 as stated: display and menu fail with an error value that is returned
\* to the caller like the error of any other operation, and write nothing.
C7_Original ==
    \A i \in 1..Len(hist) :
        hist[i].req.op \in {"display", "menu"} =>
            /\ hist[i].res \in {"Validation", "Io", "Unimplemented"}
            /\ hist[i].writes = 0

\* C7, amended: display and menu never return success and never write a byte:
\* they panic (unimplemented!()), they do not return an error value.
C7_UnsupportedPanic ==
    /\ \A i \in 1..Len(hist) :
          hist[i].req.op \in {"display", "menu"} =>
              /\ hist[i].res = "Panic"
              /\ hist[i].writes = 0
    /\ Len(sink) = Cardinality(OkCalls)
    /\ (hist # <<>> /\ Last.req.op \in {"display", "menu"}
          /\ mark.hist < Len(hist)) => status = "panicked"

C7_Witness ==
    /\ CallerChain /\ status = "panicked"
    /\ plan = << Req("cls", <<>>), Req("menu", <<>>) >>
    /\ Last.req.op = "menu" /\ Last.res = "Panic"
    /\ sink[Len(sink)] = "CLS\r\n"

SizeAgain == << Req("size", <<tape.width, tape.height>>) >>
GapAgain  == << Req("gap", <<tape.gap, tape.gap_offset>>) >>

\* C8 as stated: the caller of a constructed session can issue size (and gap)
\* again as an ordinary call.
C8_Original ==
    (phase = "Ready" /\ status = "done") => ENABLED chain(SizeAgain)

\* the only SIZE and GAP lines of the sink are the two of the construction
GeometryOnce ==
    /\ \A i \in 1..Len(hist) : ~hist[i].ctor => hist[i].req.op \notin {"size", "gap"}
    /\ \A j \in 3..Len(sink) :
          ~StartsWith(sink[j], "SIZE") /\ ~StartsWith(sink[j], "GAP")
    /\ (phase = "Ready" /\ status \in {"done", "failed", "panicked"}) =>
          ~ENABLED chain(SizeAgain) /\ ~ENABLED chain(GapAgain)

\* C8, amended: once constructed a session stays Ready and never returns to
\* Configuring; size and gap are private to the constructor, so no call of the
\* caller declares the geometry again and the sink holds the one SIZE and the
\* one GAP line of the construction.
C8_ReadyForeverGeometryOnce ==
    /\ []GeometryOnce
    /\ [][phase = "Ready" => phase' = "Ready"]_vars

C8_Witness ==
    /\ phase = "Ready" /\ CallerCalls >= 2 /\ status = "done"
    /\ Len(sink) >= 4
    /\ StartsWith(sink[1], "SIZE") /\ StartsWith(sink[2], "GAP")
    /\ ~ENABLED chain(SizeAgain)

\* the lines of the calls of h that returned Ok, in call order
RECURSIVE LinesOf(_)
LinesOf(h) ==
    IF h = <<>> THEN <<>>
    ELSE (IF Head(h).res = "Ok" THEN <<ExpectedLine(Head(h).req)>> ELSE <<>>)
         \o LinesOf(Tail(h))

\* C9: a failed call does not poison the session: the sink is the output of
\* the construction followed by the lines of exactly the calls that returned
\* Ok, in call order; a call fails validation only for its own arguments; and
\* after a validation failure the caller can call again with valid arguments.
C9_FailedCallDoesNotPoison ==
    phase = "Ready" =>
        LET nc == Len(hist) - CallerCalls
        IN  /\ Len(sink) >= nc
            /\ \A i \in 1..nc : hist[i].ctor /\ hist[i].res = "Ok"
            /\ SubSeq(sink, nc + 1, Len(sink))
                  = LinesOf(SubSeq(hist, nc + 1, Len(hist)))
            /\ \A i \in 1..Len(hist) :
                  hist[i].res = "Validation" <=> Violates(hist[i].req)
            /\ (status = "failed" /\ Last.res = "Validation") =>
                  ENABLED chain(<<Req("density", <<8>>)>>)

C9_Witness ==
    /\ phase = "Ready" /\ status = "done" /\ CallerCalls = 2
    /\ hist[Len(hist) - 1].req = Req("density", <<99>>)
    /\ hist[Len(hist) - 1].res = "Validation"
    /\ Last.req = Req("density", <<8>>) /\ Last.res = "Ok"
    /\ sink[Len(sink)] = "DENSITY 8\r\n"
    /\ Len(sink) = (Len(hist) - CallerCalls) + 1

C11_PrintRange ==
    (hist # <<>> /\ Last.req.op = "print") =>
        LET sets   == Last.req.with[1]
            copies == Last.req.with[2]
        IN  /\ Last.res \in {"Ok", "Io", "Validation"}
            /\ Last.res # "Validation" <=>
                  /\ 1 <= sets /\ sets <= 999999999
                  /\ copies = None
                        \/ (1 <= copies[1] /\ copies[1] <= 999999999)
            /\ Last.res = "Validation" => Last.writes = 0
            /\ Last.res = "Ok" =>
                  sink[Len(sink)] =
                     (IF copies = None
                      THEN "PRINT " \o ToString(sets) \o "\r\n"
                      ELSE "PRINT " \o ToString(sets) \o ","
                              \o ToString(copies[1]) \o "\r\n")
            /\ Last.req.with \in {<<0, None>>, <<1000000000, None>>} =>
                  Last.res = "Validation"
            /\ (Last.req.with = <<1, None>> /\ Last.res = "Ok") =>
                  sink[Len(sink)] = "PRINT 1\r\n"
            /\ (Last.req.with = <<999999999, Some(999999999)>> /\ Last.res = "Ok") =>
                  sink[Len(sink)] = "PRINT 999999999,999999999\r\n"

C11_Witness ==
    /\ phase = "Ready" /\ hist # <<>>
    /\ Last.req = Req("print", <<999999999, Some(1)>>) /\ Last.res = "Ok"
    /\ sink[Len(sink)] = "PRINT 999999999,1\r\n"

\* the keyword each of the three feeding methods writes
FeedKeyword(op) ==
    CASE op = "feed" -> "FEED "
      [] op = "backup" -> "BACKUP "
      [] op = "backfeed" -> "BACKFEED "

\* C12: feed, backup and backfeed of lib.rs check the length after its
\* conversion to dots at the resolution of the session: the call passes
\* validation if and only if the dot count is in 0..9999, and writes
\* "FEED n\r\n", "BACKUP n\r\n" or "BACKFEED n\r\n" with n the dot count; a
\* dot count of 10000 or more fails without a write.  Metric(1000.0) is 7992
\* dots at 203 dpi (accepted) and 11811 at 300 dpi (rejected).
C12_FeedDotsRange ==
    (impl = "lib" /\ hist # <<>>
       /\ Last.req.op \in {"feed", "backup", "backfeed"}) =>
        LET n == to_dots_raw(Last.req.with[1], dpi)
        IN  /\ Last.res # "Validation" <=> (0 <= n /\ n <= 9999)
            /\ Last.res = "Validation" =>
                  Last.writes = 0 /\ Len(sink) = Cardinality(OkCalls)
            /\ Last.res = "Ok" =>
                  sink[Len(sink)] =
                     FeedKeyword(Last.req.op) \o ToString(n) \o "\r\n"
            /\ Last.req.with[1] = Metric(10000, 1) =>
                  IF dpi = 203
                  THEN Last.res = "Ok" =>
                          sink[Len(sink)] =
                             FeedKeyword(Last.req.op) \o "7992\r\n"
                  ELSE Last.res = "Validation"
            /\ Last.req.with[1] \in {Dots(10000), Imperial(50, 0)} =>
                  Last.res = "Validation"
            /\ (Last.req.with[1] = Dots(9999) /\ Last.res = "Ok") =>
                  sink[Len(sink)] = FeedKeyword(Last.req.op) \o "9999\r\n"

C12_Witness ==
    /\ impl = "lib" /\ dpi = 203 /\ hist # <<>>
    /\ Last.req = Req("backfeed", <<Metric(10000, 1)>>) /\ Last.res = "Ok"
    /\ sink[Len(sink)] = "BACKFEED 7992\r\n"

\* C13: text and block pass validation only if multiply_x and multiply_y are
\* both in 1..10, and block only if its content is at most 4096 bytes long
\* (4096 accepted, 4097 rejected); a call that violates one of them fails
\* before anything is written.
C13_TextBlockLimits ==
    (hist # <<>> /\ Last.req.op \in {"text", "block"}) =>
        LET mx == IF Last.req.op = "text" THEN Last.req.with[5] ELSE Last.req.with[7]
            my == IF Last.req.op = "text" THEN Last.req.with[6] ELSE Last.req.with[8]
            content == IF Last.req.op = "text" THEN Last.req.with[8]
                       ELSE Last.req.with[12]
            ok == /\ 1 <= mx /\ mx <= 10
                  /\ 1 <= my /\ my <= 10
                  /\ Last.req.op = "block" => Len(content) <= 4096
        IN  /\ Last.res # "Validation" <=> ok
            /\ ~ok => /\ Last.res = "Validation"
                      /\ Last.writes = 0
                      /\ Len(sink) = Cardinality(OkCalls)
            /\ Last.res = "Ok" => StartsWith(sink[Len(sink)], "TEXT ")

C13_Witness ==
    /\ hist # <<>> /\ Last.req.op = "block" /\ Last.res = "Ok"
    /\ Len(Last.req.with[12]) = 4096
    /\ Last.req.with[7] = 10 /\ Last.req.with[8] = 1
    /\ Len(sink[Len(sink)]) > 4096

\* the nine justifications in the order of their tokens J1..J9
Justifications ==
    << "UpperLeft", "UpperCenter", "UpperRight", "CenterLeft", "Center",
       "CenterRight", "BottomLeft", "BottomCenter", "BottomRight" >>

\* C14: qrcode grades the ECC level 0..6 as L, 7..14 as M, 15..24 as Q and
\* every other value as H, and passes validation if and only if the cell
\* width is in 1..10; the line is QRCODE x,y,grade,cellwidth,A,rotation,
\* "content", with the token J1..J9 between rotation and content exactly when
\* a justification is given.  The qrcode call of examples/simple.rs writes
\* QRCODE 106,0,H,6,A,0,"0123456789AB" at 300 dpi.
C14_QrCodeGradeAndLine ==
    (hist # <<>> /\ Last.req.op = "qrcode") =>
        LET a     == Last.req.with
            ecc   == a[3]
            grade == IF ecc <= 6 THEN "L" ELSE IF ecc <= 14 THEN "M"
                     ELSE IF ecc <= 24 THEN "Q" ELSE "H"
            just  == IF a[6] = None THEN ""
                     ELSE LET k == CHOOSE i \in 1..9 : Justifications[i] = a[6][1]
                          IN  "J" \o ToString(k) \o ","
            rot   == CASE a[5] = "NoRotation" -> "0" [] a[5] = "Rotation90" -> "90"
                       [] a[5] = "Rotation180" -> "180" [] a[5] = "Rotation270" -> "270"
        IN  /\ Last.res # "Validation" <=> (1 <= a[4] /\ a[4] <= 10)
            /\ Last.res = "Validation" => Last.writes = 0
            /\ Last.res = "Ok" =>
                  sink[Len(sink)] =
                     "QRCODE " \o ToString(to_dots_raw(a[1], dpi)) \o ","
                        \o ToString(to_dots_raw(a[2], dpi)) \o "," \o grade
                        \o "," \o ToString(a[4]) \o ",A," \o rot \o ","
                        \o just \o "\"" \o a[7] \o "\"\r\n"
            /\ (Last.res = "Ok" /\ dpi = 300
                  /\ a = <<Metric(90, 1), Metric(0, 0), 35, 6, "NoRotation", None,
                           "0123456789AB">>) =>
                  sink[Len(sink)] = "QRCODE 106,0,H,6,A,0,\"0123456789AB\"\r\n"

C14_Witness ==
    /\ hist # <<>> /\ Last.res = "Ok" /\ dpi = 300
    /\ Last.req = Req("qrcode", <<Metric(90, 1), Metric(0, 0), 7, 10,
                                   "NoRotation", Some("Center"), "0123456789AB">>)
    /\ sink[Len(sink)] = "QRCODE 106,0,M,10,A,0,J5,\"0123456789AB\"\r\n"

\* C15: aztec passes validation if and only if size is in 1..20, the error
\* control parameter is at most 300 and the number of symbols is in 1..26; a
\* call that violates any one of the three writes nothing, whatever the other
\* two are.
C15_AztecLimits ==
    (hist # <<>> /\ Last.req.op = "aztec") =>
        LET a  == Last.req.with
            ok == /\ 1 <= a[4] /\ a[4] <= 20
                  /\ a[5] <= 300
                  /\ 1 <= a[8] /\ a[8] <= 26
        IN  /\ Last.res # "Validation" <=> ok
            /\ ~ok => /\ Last.res = "Validation"
                      /\ Last.writes = 0
                      /\ Len(sink) = Cardinality(OkCalls)
                      /\ \A j \in 1..Len(sink) : ~StartsWith(sink[j], "AZTEC")
            /\ Last.res = "Ok" => StartsWith(sink[Len(sink)], "AZTEC ")

C15_Witness ==
    /\ hist # <<>> /\ Last.req.op = "aztec" /\ Last.res = "Ok"
    /\ Last.req.with[4] = 20 /\ Last.req.with[5] = 300 /\ Last.req.with[8] = 26
    /\ StartsWith(sink[Len(sink)], "AZTEC ")

\* C16: rss passes validation if and only if the module width in dots is in
\* 1..10, the separator height is 1 or 2, and: for RSS Expanded a segment
\* width is given and in 2..22; for the two UCC/EAN-128 types a linear height
\* is given and in 1..500; for every other type neither is required or
\* checked, and the line has no such field.
C16_RssLimits ==
    (hist # <<>> /\ Last.req.op = "rss") =>
        LET a    == Last.req.with
            mw   == to_dots_raw(a[5], dpi)
            seg  == a[7]
            lin  == a[8]
            ok   == /\ 1 <= mw /\ mw <= 10
                    /\ a[6] \in {1, 2}
                    /\ a[3] = "RssExp" =>
                          seg # None /\ 2 <= seg[1] /\ seg[1] <= 22
                    /\ a[3] \in {"Ucc128Cca", "Ucc128Ccc"} =>
                          lin # None /\ 1 <= lin[1] /\ lin[1] <= 500
            field == IF a[3] = "RssExp" THEN "," \o ToString(seg[1])
                     ELSE IF a[3] \in {"Ucc128Cca", "Ucc128Ccc"}
                     THEN "," \o ToString(lin[1])
                     ELSE ""
        IN  /\ Last.res # "Validation" <=> ok
            /\ Last.res = "Validation" => Last.writes = 0
            /\ Last.res = "Ok" =>
                  sink[Len(sink)] =
                     "RSS " \o ToString(to_dots_raw(a[1], dpi)) \o ","
                        \o ToString(to_dots_raw(a[2], dpi)) \o ", \""
                        \o RssTypeDisplay(a[3]) \o "\"," \o RotationDisplay(a[4])
                        \o "," \o ToString(mw) \o "," \o ToString(a[6])
                        \o field \o ", \"" \o a[9] \o "\"\r\n"
            /\ (Last.res = "Ok" /\ a[3] = "Rss14" /\ a[5] = Dots(10) /\ a[6] = 2) =>
                  sink[Len(sink)] = "RSS 10,20, \"RSS14\",90,10,2, \"0123456789AB\"\r\n"

C16_Witness ==
    /\ hist # <<>> /\ Last.res = "Ok"
    /\ Last.req = Req("rss", <<Dots(10), Dots(20), "RssExp", "Rotation90",
                               Dots(1), 1, Some(22), Some(501), "0123456789AB">>)
    /\ sink[Len(sink)] = "RSS 10,20, \"RSSEXP\",90,1,1,22, \"0123456789AB\"\r\n"

\* a to_dots_raw application has returned
Converted == hist # <<>> /\ Last.req.op = "to_dots_raw"

\* trunc of the exact product, the length read as the decimal n / 10^s
DecimalDots(length, res) ==
    CASE length.unit = "Imperial" -> (length.n * res) \div Pow10(length.s)
      [] length.unit = "Metric" -> (length.n * res * 10) \div (254 * Pow10(length.s))
      [] length.unit = "Dots" -> length.n

\* the f32 that to_dots_raw hands to `as u32`
DotsF32(length, res) ==
    IF length.unit = "Imperial"
    THEN F32Mul(F32Of(length), F32FromU(res))
    ELSE F32Mul(F32Div(F32Of(length), F32_25_4), F32FromU(res))

\* n is the f32 v with its fraction dropped: n <= v < n + 1
IsTruncOf(n, v) ==
    IF v.m = 0 THEN n = 0
    ELSE IF v.e >= 0 THEN n = v.m * Pow2(v.e)
    ELSE IF v.e <= -24 THEN n = 0
    ELSE n * Pow2(-v.e) <= v.m /\ v.m < (n + 1) * Pow2(-v.e)

\* C17 as stated: to_dots gives trunc of the product: trunc(x * resolution)
\* for Imperial(x), trunc(x / 25.4 * resolution) for Metric(x), x for Dots(x).
C17_Original ==
    (Converted /\ dpi \in DotResolutions) =>
        Last.dots = DecimalDots(Last.req.with[1], dpi)

\* C17, amended: to_dots_raw computes the product in f32, every operation
\* rounded to nearest, and drops the fraction of the resulting f32: it never
\* rounds at the conversion to an integer.  Dots(x) gives x at any resolution.
\* The result is within one dot of trunc of the exact product and is one less
\* where the f32 product falls just below an integer that the exact product
\* reaches: Imperial(0.21) is 62 dots at 300 dpi, not 63.
\* Metric(0.1) is 1 dot and Metric(15.0) 177 dots at 300 dpi; Metric(15.0) is
\* 119 dots at 203 dpi, where the exact product is 119.88.
C17_TruncatesF32Product ==
    (Converted /\ dpi \in DotResolutions) =>
        LET len == Last.req.with[1]
            n   == Last.dots
            d   == DecimalDots(len, dpi)
        IN  /\ len.unit = "Dots" => n = len.n
            /\ len.unit # "Dots" => IsTruncOf(n, DotsF32(len, dpi))
            /\ d - 1 <= n /\ n <= d + 1
            /\ (len = Metric(1, 1) /\ dpi = 300) => n = 1
            /\ (len = Metric(1, 1) /\ dpi = 203) => n = 0
            /\ (len = Metric(150, 1) /\ dpi = 300) => n = 177
            /\ (len = Metric(150, 1) /\ dpi = 203) => n = 119
            /\ (len = Metric(145, 1) /\ dpi = 600) => n = 342
            /\ (len = Metric(1000, 1) /\ dpi = 203) => n = 799
            /\ (len = Metric(762, 1) /\ dpi = 203) => n = 609
            /\ (len = Imperial(21, 2) /\ dpi = 300) => n = 62
            /\ (len = Imperial(21, 2) /\ dpi = 203) => n = 42
            /\ (len = Imperial(39, 2) /\ dpi = 600) => n = 233
            /\ (len = Imperial(7, 1) /\ dpi = 300) => n = 210
            /\ (len = Imperial(15, 1) /\ dpi = 203) => n = 304

C17_Witness ==
    /\ Converted /\ dpi = 300
    /\ Last.req.with[1] = Imperial(21, 2)
    /\ Last.dots = 62
    /\ DecimalDots(Imperial(21, 2), 300) = 63

\* C18 as stated: for every resolution r > 0 that a u32 holds,
\* to_dots(Metric(25.4), r) = r and to_dots(Imperial(1.0), r) = r.
C18_UnitLengthGivesResolution ==
    (Converted /\ dpi > 0
       /\ Last.req.with[1] \in {Metric(254, 1), Imperial(10, 1)}) =>
        Last.dots = dpi

\* the three digits each country is to be written with
CountryDigits ==
    [c \in Countries |->
       CASE c = "Usa" -> "001" [] c = "CanadianFrench" -> "002"
         [] c = "SpanishLatinAmerica" -> "003" [] c = "Dutch" -> "031"
         [] c = "Belgian" -> "032" [] c = "French" -> "033"
         [] c = "Spanish" -> "034" [] c = "Hungarian" -> "036"
         [] c = "Yugoslavian" -> "038" [] c = "Italian" -> "039"
         [] c = "Switzerland" -> "041" [] c = "Slovak" -> "042"
         [] c = "UnitedKingdom" -> "044" [] c = "Danish" -> "045"
         [] c = "Swedish" -> "046" [] c = "Norwegian" -> "047"
         [] c = "Polish" -> "048" [] c = "German" -> "049"
         [] c = "Brazil" -> "055" [] c = "English" -> "061"
         [] c = "Portuguese" -> "351" [] c = "Finnish" -> "358"]

\* C19: for every Country variant, country() writes "COUNTRY ddd\r\n" with
\* ddd the numeric code of the variant padded with zeros to three digits
\* (German 049, Usa 001, Finnish 358); no variant gives a token of another
\* length, and no country is rejected.
C19_CountryThreeDigits ==
    (hist # <<>> /\ Last.req.op = "country") =>
        /\ Last.res \in {"Ok", "Io"}
        /\ Last.res = "Ok" =>
              /\ sink[Len(sink)] =
                    "COUNTRY " \o CountryDigits[Last.req.with[1]] \o "\r\n"
              /\ Len(sink[Len(sink)]) = 13

C19_Witness ==
    /\ hist # <<>> /\ Last.req = Req("country", <<"German">>) /\ Last.res = "Ok"
    /\ sink[Len(sink)] = "COUNTRY 049\r\n"

\* C20 as stated: for every code page value, codepage() writes
\* "CODEPAGE <token>\r\n" with <token> the wire token of the member
\* (Codepage8Bit::UnitedStates 437, CodepageWindows::Utf8 UTF-8,
\* CodepageIso::Latin9 8859-15), never the name of the variant or of its
\* family, and lib.rs writes the bytes that the token table of printer.rs gives.
C20_CodepageToken ==
    (hist # <<>> /\ Last.req.op = "codepage" /\ Last.res = "Ok") =>
        LET cp == Last.req.with[1]
        IN  /\ sink[Len(sink)] = "CODEPAGE " \o code(cp) \o "\r\n"
            /\ sink[Len(sink)] # "CODEPAGE " \o cp.family \o "\r\n"
            /\ sink[Len(sink)] # "CODEPAGE " \o cp.member \o "\r\n"
            /\ cp = CodepageOf("Codepage8Bit", "UnitedStates") =>
                  sink[Len(sink)] = "CODEPAGE 437\r\n"
            /\ cp = CodepageOf("CodepageWindows", "Utf8") =>
                  sink[Len(sink)] = "CODEPAGE UTF-8\r\n"
            /\ cp = CodepageOf("CodepageIso", "Latin9") =>
                  sink[Len(sink)] = "CODEPAGE 8859-15\r\n"

\* the barcode call of examples/simple.rs, with the alignment al
ExampleBarcode(al) ==
    Req("barcode", <<Metric(150, 1), Metric(0, 0), "Barcode39", Metric(150, 1),
                     "ReadableAlignsToCenter", "NoRotation", "N1W3", al,
                     "0123456789AB">>)

\* C21: on a session of resolution 300 the barcode call of examples/simple.rs
\* writes one BARCODE line with the fields 177, 0, "39", 177, 2, 0, 1,3, 2 and
\* the quoted content, in this order; with no alignment the alignment field is
\* left out and every other field is the same.
C21_BarcodeExampleLine ==
    (hist # <<>> /\ Last.req.op = "barcode") =>
        /\ Last.res \in {"Ok", "Io"}
        /\ Last.writes = 1
        /\ (Last.res = "Ok" /\ dpi = 300) =>
              /\ Last.req = ExampleBarcode(Some("Center")) =>
                    sink[Len(sink)] =
                       "BARCODE 177,0,\"39\",177,2,0,1,3,2, \"0123456789AB\"\r\n"
              /\ Last.req = ExampleBarcode(None) =>
                    sink[Len(sink)] =
                       "BARCODE 177,0,\"39\",177,2,0,1,3, \"0123456789AB\"\r\n"
        /\ Last.res = "Ok" => StartsWith(sink[Len(sink)], "BARCODE ")

C21_Witness ==
    /\ hist # <<>> /\ dpi = 300 /\ Last.res = "Ok"
    /\ Last.req = ExampleBarcode(Some("Center"))
    /\ sink[Len(sink)] = "BARCODE 177,0,\"39\",177,2,0,1,3,2, \"0123456789AB\"\r\n"

\* str has sub as a run of consecutive bytes
Contains(str, sub) ==
    \E i \in 1..(Len(str) - Len(sub) + 1) : SubSeq(str, i, i + Len(sub) - 1) = sub

\* C22: every text command in the sink is KEYWORD, one space, the arguments
\* separated by single commas with no whitespace between arguments, then CRLF:
\* no comma is followed or preceded by a space, in particular there is no
\* space between a comma and the opening double quote of barcode, text, tlc39,
\* data_matrix, mpdf417 and rss.
C22_NoSpaceBetweenArguments ==
    \A j \in 1..Len(sink) :
        ~StartsWith(sink[j], "BITMAP ") =>
            /\ WholeCommand(sink[j])
            /\ ~Contains(sink[j], ", ")
            /\ ~Contains(sink[j], " ,")

\* the header of the bitmap calls of CallRequests, written out by hand
BitmapHeader(r) ==
    "BITMAP " \o (IF dpi = 300 THEN "177" ELSE "119") \o ",3,1,2,"
    \o (CASE r.with[5] = "Overwrite" -> "0"
          [] r.with[5] = "Or"        -> "1"
          [] r.with[5] = "Xor"       -> "2")

\* C23: bitmap never fails validation and writes one buffer: the ASCII header
\* "BITMAP x,y,width_bytes,height_dots,mode", one comma, the payload bytes
\* unmodified, then CRLF; the buffer is header + 1 + payload + 2 bytes long,
\* whatever bytes the payload holds (CR, LF, comma, quote) and when it is empty.
C23_BitmapFraming ==
    (Len(hist) > 0 /\ Last.req.op = "bitmap") =>
        /\ Last.res \in {"Ok", "Io"}
        /\ Last.writes = 1
        /\ Last.res = "Ok" =>
              /\ sink[Len(sink)] =
                    BitmapHeader(Last.req) \o "," \o Last.req.with[6] \o "\r\n"
              /\ Len(sink[Len(sink)]) =
                    Len(BitmapHeader(Last.req)) + 1 + Len(Last.req.with[6]) + 2

C23_Witness ==
    /\ Len(hist) > 0
    /\ Last.req.op = "bitmap"
    /\ Last.req.with[6] = "\r\n"
    /\ Last.res = "Ok"
    /\ dpi = 203
    /\ sink[Len(sink)] = "BITMAP 119,3,1,2,2,\r\n\r\n"

\* the operations that take a content string, and the place of the content
\* among their arguments
ContentAt(op) ==
    CASE op = "barcode"     -> 9
      [] op = "text"        -> 8
      [] op = "block"       -> 12
      [] op = "qrcode"      -> 7
      [] op = "pdf417"      -> 6
      [] op = "data_matrix" -> 5
      [] op = "mpdf417"     -> 7
      [] op = "codablock"   -> 6
      [] op = "rss"         -> 9
      [] op = "aztec"       -> 10
      [] OTHER              -> 0

\* the line ends with the content as given between one opening and one
\* closing double quote, as the last argument
EndsQuoted(line, content) ==
    \/ EndsWith(line, ",\"" \o content \o "\"\r\n")
    \/ EndsWith(line, ", \"" \o content \o "\"\r\n")

ContentCall == Len(hist) > 0 /\ ContentAt(Last.req.op) > 0 /\ Last.res = "Ok"

\* C24 as stated: each of the ten operations with a content string writes it
\* byte for byte, without escaping, between exactly one opening and one
\* closing double quote.
C24_Original ==
    ContentCall =>
        EndsQuoted(sink[Len(sink)], Last.req.with[ContentAt(Last.req.op)])

\* C24: barcode, text, block, qrcode, pdf417, data_matrix, mpdf417, codablock
\* and rss write the content byte for byte, without escaping, between exactly
\* one opening and one closing double quote; aztec writes the byte length of
\* the content, a comma and the content byte for byte without quotes.
C24_ContentVerbatim ==
    ContentCall =>
        LET content == Last.req.with[ContentAt(Last.req.op)]
            line    == sink[Len(sink)]
        IN  IF Last.req.op = "aztec"
            THEN /\ EndsWith(line, "," \o ToString(Len(content)) \o ","
                                   \o content \o "\r\n")
                 /\ ~EndsQuoted(line, content)
            ELSE EndsQuoted(line, content)

C24_Witness ==
    /\ ContentCall
    /\ Last.req.op = "aztec"
    /\ Last.req.with[10] = "a\"b"
    /\ sink[Len(sink)] = "AZTEC 10,20,0,5,0,0,0,1,0,3,a\"b\r\n"

\* a length as the commands that declare geometry write it, by hand, for
\* the lengths of Tapes and SetupRequests
LengthText(v) ==
    CASE v = Metric(300, 1)  -> "30 mm"
      [] v = Metric(200, 1)  -> "20 mm"
      [] v = Metric(20, 1)   -> "2 mm"
      [] v = Metric(25, 1)   -> "2.5 mm"
      [] v = Metric(5, 1)    -> "0.5 mm"
      [] v = Metric(1234, 2) -> "12.34 mm"
      [] v = Imperial(15, 1) -> "1.5"
      [] v = Imperial(1, 1)  -> "0.1"
      [] v = Dots(24)        -> "24 dot"
      [] v = Dots(8)         -> "8 dot"
      [] v = Dots(0)         -> "0 dot"

\* a list of lengths as comma separated arguments
RECURSIVE LengthArgs(_)
LengthArgs(vs) ==
    IF Len(vs) = 1 THEN LengthText(vs[1])
    ELSE LengthText(vs[1]) \o "," \o LengthArgs(Tail(vs))

\* the lengths a geometry call was given: an absent one leaves no trace
GivenLengths(r) ==
    CASE r.op \in {"size", "gap"} -> <<r.with[1]>> \o r.with[2]
      [] r.op = "bline"           -> r.with
      [] r.op = "offset"          -> r.with
      [] r.op = "limit_feed"      ->
            <<r.with[1]>> \o (IF r.with[2] = None THEN <<>> ELSE r.with[2][1])

GeometryKeyword(op) ==
    CASE op = "size" -> "SIZE" [] op = "gap" -> "GAP" [] op = "bline" -> "BLINE"
      [] op = "offset" -> "OFFSET" [] op = "limit_feed" -> "LIMITFEED"

\* C25: SIZE and GAP at construction, bline, offset and limit_feed write their
\* lengths without dot conversion, the same at every resolution: Imperial(v)
\* as "v", Metric(v) as "v mm", Dots(v) as "v dot", separated by commas, an
\* absent height, gap offset or limit pair leaving out its field and comma.
C25_LengthsAsGiven ==
    \A i \in 1..Len(hist) :
        (hist[i].req.op \in {"size", "gap", "bline", "offset", "limit_feed"}
         /\ hist[i].res = "Ok") =>
            \E j \in 1..Len(sink) :
                /\ j = Len(SelectSeq(SubSeq(hist, 1, i), LAMBDA h : h.res = "Ok"))
                /\ sink[j] = GeometryKeyword(hist[i].req.op) \o " "
                               \o LengthArgs(GivenLengths(hist[i].req)) \o "\r\n"

C25_Witness ==
    /\ impl = "lib"
    /\ dpi = 300
    /\ Len(sink) = 5
    /\ sink[1] = "SIZE 30 mm,20 mm\r\n"
    /\ sink[2] = "GAP 2 mm\r\n"
    /\ sink[4] = "BLINE 0.1,2 mm\r\n"
    /\ sink[5] = "LIMITFEED 30 mm,0.5 mm,12.34 mm\r\n"

\* the pair of a detect call of SetupRequests in dots, by hand
PairText(pair) ==
    IF impl = "printer"
    THEN CASE pair = <<1, 1>>   -> "1,1"
           [] pair = <<8, 200>> -> "8,200"
    ELSE CASE pair = <<Dots(1), Dots(1)>> -> "1,1"
           [] pair = <<Metric(150, 1), Imperial(10, 0)>> ->
                 IF dpi = 300 THEN "177,3000" ELSE "119,2030"

DetectKeyword(op) ==
    CASE op = "gap_detect" -> "GAPDETECT" [] op = "bline_detect" -> "BLINEDETECT"
      [] op = "auto_detect" -> "AUTODETECT"

DetectOps == {"gap_detect", "bline_detect", "auto_detect"}

\* C26: gap_detect, bline_detect and auto_detect write the keyword, a space
\* and the pair "p,g" in dots (converted at the resolution of the session in
\* lib.rs, as given in printer.rs), or the bare keyword when the pair is
\* absent, then CRLF; gap_detect(Some((1,1))) then auto_detect(Some((1,1)))
\* on a new printer.rs session appends "GAPDETECT 1,1" and "AUTODETECT 1,1" to
\* the output of the construction.
C26_DetectLines ==
    /\ \A i \in 1..Len(hist) :
          (hist[i].req.op \in DetectOps /\ hist[i].res = "Ok") =>
              sink[Len(SelectSeq(SubSeq(hist, 1, i), LAMBDA h : h.res = "Ok"))] =
                  IF hist[i].req.with[1] = None
                  THEN DetectKeyword(hist[i].req.op) \o "\r\n"
                  ELSE DetectKeyword(hist[i].req.op) \o " "
                       \o PairText(hist[i].req.with[1][1]) \o "\r\n"
    /\ \A i \in 1..Len(hist) : hist[i].req.op \in DetectOps =>
          hist[i].res \in {"Ok", "Io"}
    /\ (/\ impl = "printer"
        /\ Len(hist) = 4
        /\ \A i \in 1..4 : hist[i].res = "Ok"
        /\ hist[3].req = Req("gap_detect", <<Some(<<1, 1>>)>>)
        /\ hist[4].req = Req("auto_detect", <<Some(<<1, 1>>)>>))
       => /\ Len(sink) = 4
          /\ sink[1] = size_cmd(tape.width, tape.height).buf
          /\ sink[2] = gap_cmd(tape.gap, tape.gap_offset).buf
          /\ sink[3] = "GAPDETECT 1,1\r\n"
          /\ sink[4] = "AUTODETECT 1,1\r\n"

C26_Witness ==
    /\ impl = "printer"
    /\ Len(hist) = 4
    /\ hist[3].req = Req("gap_detect", <<Some(<<1, 1>>)>>)
    /\ hist[4].req = Req("auto_detect", <<Some(<<1, 1>>)>>)
    /\ hist[4].at = 2
    /\ sink = <<"SIZE 30 mm,20 mm\r\n", "GAP 2 mm\r\n", "GAPDETECT 1,1\r\n",
                "AUTODETECT 1,1\r\n">>

\* the lines of the construction, by hand, for the tapes of Tapes
SizeLine == "SIZE " \o LengthArgs(<<tape.width>> \o tape.height) \o "\r\n"

GapLine == "GAP " \o LengthArgs(<<tape.gap>> \o tape.gap_offset) \o "\r\n"

\* the constructor has returned Ok and the caller has not called yet
Constructed == phase = "Ready" /\ mark.hist = 0

\* C27: when with_resolution of lib.rs returns, the sink holds exactly the
\* SIZE line, the GAP line and "CLS\r\n", in this order; when new of
\* printer.rs returns, it holds exactly the SIZE line and the GAP line.
C27_ConstructionOutput ==
    Constructed =>
        sink = IF impl = "lib" THEN <<SizeLine, GapLine, "CLS\r\n">>
               ELSE <<SizeLine, GapLine>>

C27_Witness ==
    /\ Constructed
    /\ impl = "lib"
    /\ sink = <<"SIZE 1.5\r\n", "GAP 24 dot,0 dot\r\n", "CLS\r\n">>

\* C28: construction stops at its first error and takes nothing back: when
\* the write of SIZE fails, GAP and CLS are never attempted and the sink is
\* empty; when the write of GAP fails, the SIZE line stays in the sink and
\* CLS is never attempted; the constructor returns the error, there is no
\* session and no operation can be issued.
C28_ConstructionFailStop ==
    /\ \A i \in 1..Len(hist) :
          (hist[i].ctor /\ hist[i].res # "Ok") =>
              /\ i = Len(hist)
              /\ phase = "Failed"
              /\ hist[i].res = "Io"
              /\ Len(sink) = i - 1
              /\ i >= 2 => sink[1] = SizeLine
              /\ i >= 3 => sink[2] = GapLine
    /\ phase = "Failed" =>
          /\ \A i \in 1..Len(hist) : hist[i].ctor
          /\ mark.hist = 0
          /\ ~ENABLED Next

C28_Witness ==
    /\ phase = "Failed"
    /\ impl = "lib"
    /\ Len(hist) = 2
    /\ hist[2].req.op = "gap"
    /\ hist[2].res = "Io"
    /\ sink = <<"SIZE 30 mm,20 mm\r\n">>

\* the operations that draw on the label
DrawingOps ==
    {"bar", "barcode", "tlc39", "bitmap", "rectangle", "circle", "ellipse",
     "codablock", "data_matrix", "erase", "pdf417", "aztec", "mpdf417",
     "qrcode", "rss", "reverse", "diagonal", "text", "block"}

\* the keyword in the format string of each drawing operation
EmittedKeyword(op) ==
    CASE op = "bar" -> "BAR"               [] op = "barcode" -> "BARCODE"
      [] op = "tlc39" -> "TLC39"           [] op = "bitmap" -> "BITMAP"
      [] op = "rectangle" -> "BOX"         [] op = "circle" -> "CIRCLE"
      [] op = "ellipse" -> "ELLIPSE"       [] op = "codablock" -> "CODABLOCK"
      [] op = "data_matrix" -> "DMATRIX"   [] op = "erase" -> "ERASE"
      [] op = "pdf417" -> "PDF417"         [] op = "aztec" -> "AZTEC"
      [] op = "mpdf417" -> "MPDF417"       [] op = "qrcode" -> "QRCODE"
      [] op = "rss" -> "RSS"               [] op = "reverse" -> "REVERSE"
      [] op = "diagonal" -> "DIAGONAL"     [] op = "text" -> "TEXT"
      [] op = "block" -> "TEXT"

\* C29: distinct drawing operations emit distinct keywords: the line of a
\* drawing call starts with the keyword of its operation and with the keyword
\* of no other drawing operation; in particular the keyword of block is not
\* the keyword of text.
C29_DistinctKeywords ==
    (Len(hist) > 0 /\ Last.req.op \in DrawingOps /\ Last.res = "Ok") =>
        /\ StartsWith(sink[Len(sink)], EmittedKeyword(Last.req.op) \o " ")
        /\ \A other \in DrawingOps \ {Last.req.op} :
              ~StartsWith(sink[Len(sink)], EmittedKeyword(other) \o " ")

\* C30: the conversion to dots saturates at the bounds of u32 and never
\* wraps: a negative length gives 0, so that feed, backup and backfeed of a
\* negative length pass the range check and write a length of 0; a length of
\* more than u32::MAX dots gives 4294967295, so that feed, backup and backfeed
\* reject it without writing.
C30_SaturatingConversion ==
    (Len(hist) > 0 /\ impl = "lib" /\ Last.res # "Io") =>
        /\ (Last.req.op \in {"feed", "backup", "backfeed"}
            /\ Last.req.with[1] \in OverRange) =>
              /\ Last.res = "Validation"
              /\ Last.writes = 0
              /\ Len(sink) = 3
        /\ (Last.req.op \in {"feed", "backup", "backfeed"}
            /\ Last.req.with[1] = Negative) =>
              /\ Last.res = "Ok"
              /\ sink[Len(sink)] = FeedKeyword(Last.req.op) \o "0\r\n"
        /\ (Last.req.op = "bar" /\ Last.req.with[3] \in OverRange) =>
              sink[Len(sink)] = "BAR 10,20,4294967295,40\r\n"
        /\ (Last.req.op = "bar" /\ Last.req.with[3] = Negative) =>
              sink[Len(sink)] = "BAR 10,20,0,40\r\n"
        /\ (Last.req.op = "bar" /\ Last.req.with[3] = Imperial(10000000, 0)) =>
              sink[Len(sink)] = (IF dpi = 300 THEN "BAR 10,20,3000000000,40\r\n"
                                 ELSE "BAR 10,20,2030000000,40\r\n")

C30_Witness ==
    /\ Len(hist) > 0
    /\ impl = "lib"
    /\ dpi = 300
    /\ Last.req = Req("feed", <<Imperial(1073741824, 0)>>)
    /\ Last.res = "Validation"
    /\ to_dots_raw(Imperial(1073741824, 0), resolution) = U32_MAX

====
